---- MODULE Spec2Model ----
(***************************************************************************)
(* A model of message_ix_models' command-line parameter callbacks          *)
(* (util/click.py) and of the technology-cost pipeline (tools/costs):      *)
(* WEO data imputation and regional differentiation, GDP ratios, the       *)
(* two-point cost-ratio regression and the converging cost series.         *)
(*                                                                         *)
(* Numbers: the code computes in IEEE doubles.  The model computes in      *)
(* exact rationals (pairs n/d in lowest terms) plus one NaN value, which   *)
(* is what a division 0/0 and a missing cell produce.  x/x = 1 for every   *)
(* finite non-zero x in both arithmetics; rounding is not modelled.        *)
(***************************************************************************)
EXTENDS Integers, Sequences, FiniteSets, TLC

VARIABLES
    \* ---- util/click.py: one CLI invocation ----
    ctx,        \* the shared message_ix_models.Context
    ret,        \* what the last callback returned
    call,       \* the last callback invocation: which, with what
    err,        \* the exception that aborted the invocation, or "none"
    ncalls,     \* callbacks run so far
    file,       \* the text of the file --urls-from-file names
    lastStore,  \* history: per name, the value of the latest store_context call
    \* ---- tools/costs: one pipeline run ----
    stage,      \* position in the pipeline
    inp,        \* the inputs of the run (data files and configuration)
    out         \* the tables computed so far

cliVars == <<ctx, ret, call, err, ncalls, file, lastStore>>
costVars == <<stage, inp, out>>
vars == <<ctx, ret, call, err, ncalls, file, lastStore, stage, inp, out>>

(***************************************************************************)
(* Bounds                                                                  *)
(***************************************************************************)
MaxCalls == 2
MaxLines == 2
MaxCost == 2

(***************************************************************************)
(* Python values held by the Context: None, str, bool, Path                *)
(***************************************************************************)
PyNone == [t |-> "none", v |-> <<>>]
Unset == [t |-> "unset", v |-> <<>>]
Str(s) == [t |-> "str", v |-> <<s>>]
PyBool(b) == [t |-> "bool", v |-> <<IF b THEN "True" ELSE "False">>]
PyPath(parts) == [t |-> "path", v |-> parts]

\* Python truthiness, as `value or default` tests it
Truthy(x) ==
    ~ (x.t = "none" \/ (x.t = "str" /\ x.v = <<"">>) \/ (x.t = "bool" /\ x.v = <<"False">>))

Or(a, b) == IF Truthy(a) THEN a ELSE b

(***************************************************************************)
(* Text: a string is a sequence of one-character strings                   *)
(***************************************************************************)
Digits == <<"0", "1", "2", "3", "4", "5", "6", "7", "8", "9">>

IsDigit(c) == \E i \in 1..10 : Digits[i] = c

DigitVal(c) == (CHOOSE i \in 1..10 : Digits[i] = c) - 1

IsSpace(c) == c \in {" ", "\n"}

RECURSIVE LStrip(_)
LStrip(s) == IF s # <<>> /\ IsSpace(Head(s)) THEN LStrip(Tail(s)) ELSE s

RECURSIVE RStrip(_)
RStrip(s) ==
    IF s # <<>> /\ IsSpace(s[Len(s)]) THEN RStrip(SubSeq(s, 1, Len(s) - 1)) ELSE s

Strip(s) == RStrip(LStrip(s))

\* index of the first c in s, 0 when there is none
IndexOf(s, c) ==
    IF \E i \in 1..Len(s) : s[i] = c
    THEN CHOOSE i \in 1..Len(s) : s[i] = c /\ \A j \in 1..(i - 1) : s[j] # c
    ELSE 0

RECURSIVE DigitsValue(_)
DigitsValue(s) ==
    IF s = <<>> THEN 0 ELSE 10 * DigitsValue(SubSeq(s, 1, Len(s) - 1)) + DigitVal(s[Len(s)])

\* Python int(str): surrounding whitespace ignored, decimal digits; -1 for ValueError
ParseInt(s) ==
    LET t == Strip(s)
    IN  IF t # <<>> /\ \A i \in 1..Len(t) : IsDigit(t[i]) THEN DigitsValue(t) ELSE -1

\* Python str(int) of a non-negative int
RECURSIVE FormatInt(_)
FormatInt(n) ==
    IF n < 10 THEN <<Digits[n + 1]>> ELSE FormatInt(n \div 10) \o <<Digits[(n % 10) + 1]>>

\* iterating a text file: the lines, each with its line ending
RECURSIVE SplitLines(_)
SplitLines(text) ==
    IF text = <<>> THEN <<>>
    ELSE LET k == IndexOf(text, "\n")
         IN  IF k = 0 THEN <<text>>
             ELSE <<SubSeq(text, 1, k)>> \o SplitLines(SubSeq(text, k + 1, Len(text)))

RECURSIVE Concat(_)
Concat(ss) == IF ss = <<>> THEN <<>> ELSE Head(ss) \o Concat(Tail(ss))

\* Python sep.join(items)
RECURSIVE Join(_, _)
Join(items, sep) ==
    IF items = <<>> THEN <<>>
    ELSE IF Len(items) = 1 THEN items[1]
    ELSE items[1] \o sep \o Join(Tail(items), sep)

(***************************************************************************)
(* util/scenarioinfo.py (not among the sources): ScenarioInfo.from_url     *)
(* and ScenarioInfo.url, after the URL syntax <model>/<scenario>#<version> *)
(***************************************************************************)
NoVersion == -1

\* ScenarioInfo.from_url(url): ok = FALSE stands for the ValueError of a malformed URL
from_url(line) ==
    LET h == IndexOf(line, "#")
        path == Strip(IF h = 0 THEN line ELSE SubSeq(line, 1, h - 1))
        frag == IF h = 0 THEN <<>> ELSE SubSeq(line, h + 1, Len(line))
        s == IndexOf(path, "/")
        version == IF Strip(frag) = <<>> THEN NoVersion ELSE ParseInt(frag)
        bad == s = 0 \/ (Strip(frag) # <<>> /\ version = -1)
    IN  [ok |-> ~bad,
         si |-> IF bad THEN [model |-> <<>>, scenario |-> <<>>, version |-> NoVersion]
                ELSE [model |-> SubSeq(path, 1, s - 1),
                      scenario |-> SubSeq(path, s + 1, Len(path)),
                      version |-> version]]

\* ScenarioInfo.url
url(si) ==
    si.model \o <<"/">> \o si.scenario
        \o (IF si.version = NoVersion THEN <<>> ELSE <<"#">> \o FormatInt(si.version))

\* Context.get_local_path(*parts): the local-data root joined with the parts
get_local_path(c, parts) == PyPath(c.local_data \o parts)

(***************************************************************************)
(* util/click.py                                                           *)
(***************************************************************************)
AttrNames ==
    {"dest", "dry_run", "force", "run_reporting_only", "ssp",
     "policy_path", "rep_out_path", "rep_template"}

\* model.Config.regions and model.Config.years, the defaults of --nodes and --years
ConfigRegions == Str("model.Config.regions")
ConfigYears == Str("model.Config.years")

\* the three expressions PARAMS hands to exec_cb
ExprNodes == "context.model.regions = value"
ExprRegions == "context.model.regions = value or context.model.regions"
ExprYears == "context.model.years = value"

\* PARAMS: each parameter's callback and what it is built from
PARAMS ==
    [dest |-> [cb |-> "store_context", parts |-> <<>>, expr |-> "", default |-> PyNone],
     dry_run |-> [cb |-> "store_context", parts |-> <<>>, expr |-> "", default |-> PyBool(FALSE)],
     force |-> [cb |-> "store_context", parts |-> <<>>, expr |-> "", default |-> PyBool(FALSE)],
     nodes |-> [cb |-> "exec_cb", parts |-> <<>>, expr |-> ExprNodes, default |-> ConfigRegions],
     policy_path |-> [cb |-> "default_path_cb", parts |-> <<"scenario_generation", "policies">>,
                      expr |-> "", default |-> PyNone],
     regions |-> [cb |-> "exec_cb", parts |-> <<>>, expr |-> ExprRegions, default |-> PyNone],
     rep_out_path |-> [cb |-> "default_path_cb", parts |-> <<"reporting_output">>,
                       expr |-> "", default |-> PyNone],
     rep_template |-> [cb |-> "default_path_cb",
                       parts |-> <<"message_data", "tools", "post_processing",
                                   "MESSAGEix_WorkDB_Template.xlsx">>,
                       expr |-> "", default |-> PyNone],
     run_reporting_only |-> [cb |-> "store_context", parts |-> <<>>, expr |-> "",
                             default |-> PyBool(FALSE)],
     ssp |-> [cb |-> "store_context", parts |-> <<>>, expr |-> "", default |-> PyNone],
     urls_from_file |-> [cb |-> "urls_from_file", parts |-> <<>>, expr |-> "",
                         default |-> PyNone],
     years |-> [cb |-> "exec_cb", parts |-> <<>>, expr |-> ExprYears, default |-> ConfigYears]]

ParamNames == DOMAIN PARAMS

\* click hands the callback the option's default when the option is omitted
ClickValue(param, supplied) == IF supplied = PyNone THEN PARAMS[param].default ELSE supplied

\* setattr(context, name, value)
SetAttr(c, name, value) == [c EXCEPT !.attrs[name] = value]

\* what a callback does: the Context afterwards, the value returned, the exception raised
Outcome(c, r, e) == [ctx |-> c, ret |-> r, err |-> e]

\* a default_path_cb that stores the value before defaulting it
default_path_cb_raw(default_parts, c, wrapped, param, value) ==
    IF ~wrapped THEN Outcome(c, PyNone, "AttributeError")
    ELSE Outcome(SetAttr(c, param, value), Or(value, get_local_path(c, default_parts)), "none")

\* default_path_cb(*default_parts)._callback(context, param, value); it reads
\* context.obj, which only a click.Context has
default_path_cb(default_parts, c, wrapped, param, value) ==
    IF ~wrapped THEN Outcome(c, PyNone, "AttributeError")
    ELSE LET v == Or(value, get_local_path(c, default_parts))
         IN  Outcome(SetAttr(c, param, v), v, "none")

\* an exec whose --years expression assigns context.model.regions
ExecRegionsForYears(expression, c, value) ==
    CASE expression = ExprNodes -> [c EXCEPT !.regions = value]
      [] expression = ExprRegions -> [c EXCEPT !.regions = Or(value, c.regions)]
      [] expression = ExprYears -> [c EXCEPT !.regions = value]

\* an exec whose --regions expression assigns the value even when there is none
ExecRegionsAssign(expression, c, value) ==
    CASE expression = ExprNodes -> [c EXCEPT !.regions = value]
      [] expression = ExprRegions -> [c EXCEPT !.regions = value]
      [] expression = ExprYears -> [c EXCEPT !.years = value]

\* exec(expression, {}, {"context": ctx, "value": value})
Exec(expression, c, value) ==
    CASE expression = ExprNodes -> [c EXCEPT !.regions = value]
      [] expression = ExprRegions -> [c EXCEPT !.regions = Or(value, c.regions)]
      [] expression = ExprYears -> [c EXCEPT !.years = value]

\* exec_cb(expression)._cb(context, param, value)
exec_cb(expression, c, wrapped, param, value) ==
    Outcome(Exec(expression, c, value), value, "none")

\* a store_context that stores only values that are given
store_context_if_given(c, wrapped, param, value) ==
    Outcome(IF Truthy(value) THEN SetAttr(c, param, value) ELSE c, value, "none")

\* store_context(context, param, value)
store_context(c, wrapped, param, value) == Outcome(SetAttr(c, param, value), value, "none")

PyList(items) == [t |-> "list", v |-> items]

RECURSIVE ParseLines(_)
ParseLines(lines) ==
    IF lines = <<>> THEN <<>> ELSE <<from_url(Head(lines)).si>> \o ParseLines(Tail(lines))

\* a urls_from_file that loses the last line of the file
urls_from_file_short(c, wrapped, param, value, text) ==
    IF value = PyNone THEN Outcome(c, PyList(<<>>), "none")
    ELSE LET lines == SplitLines(text)
             si == ParseLines(SubSeq(lines, 1, Len(lines) - 1))
         IN  IF \E i \in 1..Len(lines) : ~from_url(lines[i]).ok
             THEN Outcome(c, PyNone, "ValueError")
             ELSE Outcome([c EXCEPT !.scenarios = si], PyList(si), "none")

\* a urls_from_file that stores its empty list also when no file is given
urls_from_file_reset(c, wrapped, param, value, text) ==
    IF value = PyNone THEN Outcome([c EXCEPT !.scenarios = <<>>], PyList(<<>>), "none")
    ELSE LET lines == SplitLines(text)
         IN  IF \E i \in 1..Len(lines) : ~from_url(lines[i]).ok
             THEN Outcome(c, PyNone, "ValueError")
             ELSE LET si == ParseLines(lines)
                  IN  Outcome([c EXCEPT !.scenarios = si], PyList(si), "none")

\* urls_from_file(context, param, value); text is the content of the file value names
urls_from_file(c, wrapped, param, value, text) ==
    IF value = PyNone THEN Outcome(c, PyList(<<>>), "none")
    ELSE LET lines == SplitLines(text)
         IN  IF \E i \in 1..Len(lines) : ~from_url(lines[i]).ok
             THEN Outcome(c, PyNone, "ValueError")
             ELSE LET si == ParseLines(lines)
                  IN  Outcome([c EXCEPT !.scenarios = si], PyList(si), "none")

(***************************************************************************)
(* One CLI invocation: click runs the callbacks of the command's           *)
(* parameters one after the other on one Context; an exception aborts it.  *)
(***************************************************************************)
\* the file of tests/util/test_click.py::test_urls_from_file
TestFile ==
    <<"m", "/", "s", "#", "3", "\n",
      "f", "o", "o", "/", "b", "a", "r", "#", "5", "\n",
      "b", "a", "z", "/", "q", "u", "x", "#", "1", "2", "3", "\n">>

\* lines a file of scenario URLs may hold: two well-formed ones, one whose
\* version has a leading zero, one without its line ending
LineSet ==
    {<<"m", "/", "s", "#", "3", "\n">>,
     <<"a", "b", "/", "c", "#", "1", "0", "\n">>,
     <<"m", "/", "s", "#", "0", "3", "\n">>,
     <<"m", "/", "s", "#", "3">>}

Files == {Concat(ls) : ls \in UNION {[1..n -> LineSet] : n \in 0..MaxLines}}

\* what the command line may supply for each parameter; PyNone: option omitted
Supplied(param) ==
    CASE param = "dest" -> {PyNone, Str("ixmp://platform/m/s")}
      [] param \in {"dry_run", "force", "run_reporting_only"} -> {PyNone, PyBool(TRUE)}
      [] param = "ssp" -> {Str("SSP1"), Str("SSP2"), Str("SSP3")}
      [] param \in {"nodes", "regions"} -> {PyNone, Str("R11"), Str("R12")}
      [] param = "years" -> {PyNone, Str("A"), Str("B")}
      [] param \in {"policy_path", "rep_out_path", "rep_template"} ->
            {PyNone, Str(""), Str("/out")}
      [] param = "urls_from_file" -> {PyNone, PyPath(<<"scenarios.txt">>)}

ParamsWith(cb) == {p \in ParamNames : PARAMS[p].cb = cb}

NoCall ==
    [op |-> "start", param |-> "", supplied |-> PyNone, value |-> PyNone, wrapped |-> TRUE]

InitContext ==
    [attrs |-> [n \in AttrNames |-> Unset],
     regions |-> ConfigRegions,
     years |-> ConfigYears,
     scenarios |-> <<>>,
     local_data |-> <<"home", "data">>]

CostIdle == stage = {} /\ inp = <<>> /\ out = <<>>

CliIdle ==
    /\ ctx = InitContext
    /\ ret = PyNone
    /\ call = NoCall
    /\ ncalls = 0
    /\ file = <<>>
    /\ lastStore = <<>>

InitCli ==
    /\ ctx = InitContext
    /\ ret = PyNone
    /\ call = NoCall
    /\ err = "none"
    /\ ncalls = 0
    /\ lastStore = [n \in ParamsWith("store_context") |-> Unset]
    /\ file = TestFile
    /\ CostIdle

InitUrls ==
    /\ ctx = InitContext
    /\ ret = PyNone
    /\ call = NoCall
    /\ err = "none"
    /\ ncalls = 0
    /\ lastStore = [n \in ParamsWith("store_context") |-> Unset]
    /\ file \in Files
    /\ CostIdle

\* click invokes param's callback with the supplied value (or the default)
Invoke(param, supplied, wrapped, outcome) ==
    /\ err = "none"
    /\ ncalls < MaxCalls
    /\ ctx' = outcome.ctx
    /\ ret' = outcome.ret
    /\ err' = outcome.err
    /\ call' = [op |-> PARAMS[param].cb, param |-> param, supplied |-> supplied,
                value |-> ClickValue(param, supplied), wrapped |-> wrapped]
    /\ ncalls' = ncalls + 1
    /\ lastStore' = IF PARAMS[param].cb = "store_context"
                    THEN [lastStore EXCEPT ![param] = ClickValue(param, supplied)]
                    ELSE lastStore
    /\ UNCHANGED <<file, stage, inp, out>>

CallStoreContext ==
    \E param \in ParamsWith("store_context"), wrapped \in BOOLEAN :
        \E supplied \in Supplied(param) :
            Invoke(param, supplied, wrapped,
                   store_context(ctx, wrapped, param, ClickValue(param, supplied)))

CallDefaultPathCb ==
    \E param \in ParamsWith("default_path_cb"), wrapped \in BOOLEAN :
        \E supplied \in Supplied(param) :
            Invoke(param, supplied, wrapped,
                   default_path_cb(PARAMS[param].parts, ctx, wrapped, param,
                                   ClickValue(param, supplied)))

CallExecCb ==
    \E param \in ParamsWith("exec_cb"), wrapped \in BOOLEAN :
        \E supplied \in Supplied(param) :
            Invoke(param, supplied, wrapped,
                   exec_cb(PARAMS[param].expr, ctx, wrapped, param,
                           ClickValue(param, supplied)))

CallUrlsFromFile ==
    \E wrapped \in BOOLEAN, supplied \in Supplied("urls_from_file") :
        Invoke("urls_from_file", supplied, wrapped,
               urls_from_file(ctx, wrapped, "urls_from_file",
                              ClickValue("urls_from_file", supplied), file))

NextCli == CallStoreContext \/ CallDefaultPathCb \/ CallExecCb \/ CallUrlsFromFile

SpecCli == InitCli /\ [][NextCli]_vars

NextUrls == CallUrlsFromFile

SpecUrls == InitUrls /\ [][NextUrls]_vars

(***************************************************************************)
(* Properties of the callbacks                                             *)
(***************************************************************************)
\* tests/util/test_click.py: print("\n".join([s.url for s in ctx.core.scenarios]))
PrintUrls(scenarios) ==
    Join([i \in 1..Len(scenarios) |-> url(scenarios[i])], <<"\n">>) \o <<"\n">>

NameChar(c) == ~IsSpace(c) /\ c # "/" /\ c # "#"

\* one URL <model>/<scenario>#<version> and its line ending; the version is a
\* decimal number written without leading zeros
WellFormedLine(l) ==
    LET s == IndexOf(l, "/")
        h == IndexOf(l, "#")
    IN  /\ Len(l) >= 6
        /\ l[Len(l)] = "\n"
        /\ s > 1 /\ h > s + 1 /\ h < Len(l) - 1
        /\ \A i \in (1..(h - 1)) \ {s} : NameChar(l[i])
        /\ \A i \in (h + 1)..(Len(l) - 1) : IsDigit(l[i])
        /\ (l[h + 1] # "0" \/ h + 1 = Len(l) - 1)

\* a file of one or more such lines and nothing else
WellFormedFile(text) ==
    /\ text # <<>>
    /\ \A i \in 1..Len(SplitLines(text)) : WellFormedLine(SplitLines(text)[i])

\* C1: parsing a well-formed file of scenario URLs with urls_from_file and printing
\* the .url of the entries stored on context.core.scenarios, one per line,
\* reproduces the text of the file exactly.
C1_RoundTrip ==
    (call.op = "urls_from_file" /\ call.value # PyNone /\ WellFormedFile(file))
        => (err = "none" /\ PrintUrls(ctx.scenarios) = file)

C1_Witness ==
    /\ call.op = "urls_from_file" /\ call.value # PyNone /\ WellFormedFile(file)
    /\ Len(ctx.scenarios) = 2
    /\ ctx.scenarios[1].version = 10 /\ ctx.scenarios[2].version = 3
    /\ PrintUrls(ctx.scenarios) = file

DefaultPath(param) == PyPath(ctx.local_data \o PARAMS[param].parts)

\* C2 as stated: an omitted option stores and returns the default path, and any
\* supplied value is itself stored and returned.
C2_AnySuppliedValueKept ==
    (call.op = "default_path_cb" /\ call.wrapped)
        => /\ err = "none"
           /\ ctx.attrs[call.param] = ret
           /\ (call.supplied = PyNone => ret = DefaultPath(call.param))
           /\ (call.supplied # PyNone => ret = call.supplied)

\* C2, amended: the callback made by default_path_cb stores on the context, and
\* returns, the local-data path joined with the parts when the option is omitted
\* or empty, and the supplied value when that is non-empty; stored = returned.
C2_DefaultPath ==
    (call.op = "default_path_cb" /\ call.wrapped)
        => /\ err = "none"
           /\ ctx.attrs[call.param] = ret
           /\ (call.supplied \in {PyNone, Str("")} => ret = DefaultPath(call.param))
           /\ (call.supplied \notin {PyNone, Str("")} => ret = call.supplied)

C2_Witness ==
    /\ call.op = "default_path_cb" /\ call.wrapped /\ call.param = "rep_out_path"
    /\ call.supplied = Str("")
    /\ ctx.attrs["rep_out_path"] = PyPath(<<"home", "data", "reporting_output">>)
    /\ ret = ctx.attrs["rep_out_path"]

\* C3: store_context returns the value it is given, and after any sequence of
\* callbacks the context attribute of each store_context parameter is the value of
\* the latest store_context call for that name (unset when there was none),
\* None and False included; no other name's attribute is touched.
C3_StoreContext ==
    /\ \A n \in ParamsWith("store_context") : ctx.attrs[n] = lastStore[n]
    /\ call.op = "store_context" => (ret = call.value /\ err = "none")

C3_Witness ==
    /\ ncalls = 2 /\ call.op = "store_context" /\ call.param = "dest"
    /\ call.value = PyNone /\ ctx.attrs["dest"] = PyNone
    /\ ctx.attrs["force"] = PyBool(TRUE)
    /\ ctx.attrs["ssp"] = Unset

\* C4: a callback made by exec_cb returns the value unchanged and changes nothing
\* but what its expression assigns: --nodes sets context.model.regions and --years
\* sets context.model.years to the supplied value, or to the default when omitted.
C4_ExecCb ==
    [][(call'.op = "exec_cb" /\ ncalls' = ncalls + 1)
          => /\ ret' = call'.value /\ err' = "none"
             /\ ctx'.attrs = ctx.attrs /\ ctx'.scenarios = ctx.scenarios
             /\ ctx'.local_data = ctx.local_data
             /\ (call'.param = "nodes" =>
                    /\ ctx'.years = ctx.years
                    /\ ctx'.regions = IF call'.supplied = PyNone THEN ConfigRegions
                                      ELSE call'.supplied)
             /\ (call'.param = "years" =>
                    /\ ctx'.regions = ctx.regions
                    /\ ctx'.years = IF call'.supplied = PyNone THEN ConfigYears
                                    ELSE call'.supplied)
             /\ (call'.param = "regions" => ctx'.years = ctx.years)]_vars

C4_Witness ==
    /\ ncalls = 2 /\ call.op = "exec_cb" /\ call.param = "years"
    /\ call.supplied = Str("A") /\ ret = Str("A")
    /\ ctx.years = Str("A") /\ ctx.regions = Str("R12")

\* the ScenarioInfo of each line of the file, in file order
ScenariosOf(text) ==
    [i \in 1..Len(SplitLines(text)) |-> from_url(SplitLines(text)[i]).si]

\* every line of the file is a URL ScenarioInfo.from_url accepts
AllLinesParse(text) ==
    \A i \in 1..Len(SplitLines(text)) : from_url(SplitLines(text)[i]).ok

\* C26: urls_from_file without a value returns an empty list and leaves the context,
\* context.core.scenarios included, as it was; with a file whose lines all parse it
\* stores on context.core.scenarios one ScenarioInfo per line of the file, in file
\* order, returns that list, and changes nothing else of the context; a line that
\* from_url rejects raises before anything is stored.
C26_UrlsFromFile ==
    [][(call'.op = "urls_from_file" /\ ncalls' = ncalls + 1)
          => /\ (call'.value = PyNone =>
                    (err' = "none" /\ ret' = PyList(<<>>) /\ ctx' = ctx))
             /\ (call'.value # PyNone /\ AllLinesParse(file) =>
                    /\ err' = "none"
                    /\ ctx' = [ctx EXCEPT !.scenarios = ScenariosOf(file)]
                    /\ ret' = PyList(ctx'.scenarios))
             /\ (call'.value # PyNone /\ ~AllLinesParse(file) =>
                    (err' = "ValueError" /\ ctx' = ctx))]_vars

C26_Witness ==
    /\ ncalls = 2 /\ call.op = "urls_from_file" /\ call.value = PyNone
    /\ ret = PyList(<<>>)
    /\ Len(SplitLines(file)) = 2 /\ ctx.scenarios = ScenariosOf(file)
    /\ ctx.scenarios[1].version = 10 /\ ctx.scenarios[2].version = 3

\* C27: each callback leaves context.model.regions at the value --regions or --nodes
\* explicitly supplies, at the --nodes default when it is --nodes without a value,
\* and at its previous value otherwise (--regions omitted, or any other option); so
\* after any sequence of callbacks it is the last explicitly supplied value, or the
\* --nodes default when --nodes came after it without a value.
C27_Regions ==
    [][ncalls' = ncalls + 1
          => ctx'.regions =
                IF call'.param \in {"regions", "nodes"} /\ call'.supplied # PyNone
                THEN call'.supplied
                ELSE IF call'.param = "nodes" THEN PARAMS["nodes"].default
                ELSE ctx.regions]_vars

C27_Witness ==
    /\ ncalls = 2 /\ call.op = "exec_cb" /\ call.param = "regions"
    /\ call.supplied = PyNone /\ ret = PyNone /\ err = "none"
    /\ ctx.regions = Str("R12")

\* PARAMS[param].callback(context, param, value): the callback click runs for param
Callback(param, c, wrapped, value, text) ==
    CASE PARAMS[param].cb = "store_context" -> store_context(c, wrapped, param, value)
      [] PARAMS[param].cb = "default_path_cb" ->
            default_path_cb(PARAMS[param].parts, c, wrapped, param, value)
      [] PARAMS[param].cb = "exec_cb" -> exec_cb(PARAMS[param].expr, c, wrapped, param, value)
      [] PARAMS[param].cb = "urls_from_file" -> urls_from_file(c, wrapped, param, value, text)

\* C28: every callback leaves the shared Context in the same state, returns the same
\* value and raises the same exception whether it is handed the click.Context that
\* wraps the shared Context or the shared Context itself.
C28_SameEitherWay ==
    [][ncalls' = ncalls + 1
          => /\ Callback(call'.param, ctx, ~call'.wrapped, call'.value, file).ctx = ctx'
             /\ Callback(call'.param, ctx, ~call'.wrapped, call'.value, file).ret = ret'
             /\ Callback(call'.param, ctx, ~call'.wrapped, call'.value, file).err = err']_vars

(***************************************************************************)
(* Numbers: exact rationals n/d in lowest terms, d > 0; d = 0 stands for   *)
(* the doubles that are no number: 0/0 is NaN, 1/0 and -1/0 the infinities *)
(***************************************************************************)
Abs(i) == IF i < 0 THEN -i ELSE i

Sign(i) == IF i < 0 THEN -1 ELSE IF i > 0 THEN 1 ELSE 0

RECURSIVE GCD(_, _)
GCD(a, b) == IF b = 0 THEN a ELSE GCD(b, a % b)

Rat(n, d) ==
    LET g == GCD(Abs(n), Abs(d))
    IN  [n |-> Sign(d) * (n \div g), d |-> Abs(d) \div g]

NaN == [n |-> 0, d |-> 0]
Zero == [n |-> 0, d |-> 1]
One == [n |-> 1, d |-> 1]
Num(i) == [n |-> i, d |-> 1]

IsNaN(x) == x.n = 0 /\ x.d = 0

\* isnull() / notnull() on a numeric column
IsNull(x) == IsNaN(x)

RAdd(a, b) ==
    IF IsNaN(a) \/ IsNaN(b) THEN NaN
    ELSE IF a.d = 0 /\ b.d = 0 THEN (IF a.n = b.n THEN a ELSE NaN)
    ELSE IF a.d = 0 THEN a
    ELSE IF b.d = 0 THEN b
    ELSE Rat(a.n * b.d + b.n * a.d, a.d * b.d)

RNeg(a) == [n |-> -a.n, d |-> a.d]

RSub(a, b) == RAdd(a, RNeg(b))

RMul(a, b) ==
    IF IsNaN(a) \/ IsNaN(b) THEN NaN
    ELSE IF a.d = 0 \/ b.d = 0
         THEN (IF a.n = 0 \/ b.n = 0 THEN NaN ELSE [n |-> Sign(a.n) * Sign(b.n), d |-> 0])
    ELSE Rat(a.n * b.n, a.d * b.d)

RInv(a) ==
    IF IsNaN(a) THEN NaN
    ELSE IF a.d = 0 THEN Zero
    ELSE IF a.n = 0 THEN [n |-> 1, d |-> 0]
    ELSE Rat(a.d, a.n)

\* a / b as numpy divides doubles: 0/0 is NaN, x/0 an infinity, no exception
RDiv(a, b) == RMul(a, RInv(b))

RLess(a, b) == a.n * b.d < b.n * a.d

\* the elements of a finite set in some order
RECURSIVE SetToSeq(_)
SetToSeq(S) ==
    IF S = {} THEN <<>> ELSE LET x == CHOOSE x \in S : TRUE IN <<x>> \o SetToSeq(S \ {x})

RECURSIVE SortRat(_)
SortRat(xs) ==
    IF xs = <<>> THEN <<>>
    ELSE LET i == CHOOSE i \in 1..Len(xs) : \A j \in 1..Len(xs) : ~RLess(xs[j], xs[i])
         IN  <<xs[i]>> \o SortRat(SubSeq(xs, 1, i - 1) \o SubSeq(xs, i + 1, Len(xs)))

RECURSIVE DropNaN(_)
DropNaN(xs) ==
    IF xs = <<>> THEN <<>>
    ELSE (IF IsNaN(Head(xs)) THEN <<>> ELSE <<Head(xs)>>) \o DropNaN(Tail(xs))

\* pandas "median" of a column: NaN skipped; NaN when nothing is left
Median(xs) ==
    LET ys == SortRat(DropNaN(xs))
        k == Len(ys)
    IN  IF k = 0 THEN NaN
        ELSE IF k % 2 = 1 THEN ys[(k + 1) \div 2]
        ELSE RDiv(RAdd(ys[k \div 2], ys[(k \div 2) + 1]), Num(2))

(***************************************************************************)
(* tools/costs/regional_differentiation.py                                 *)
(* A table (DataFrame) is the set of its rows, each row a record.          *)
(***************************************************************************)
\* the node codelists: the regions of each node set
NodeRegions ==
    [R11 |-> {"R11_NAM", "R11_WEU", "R11_CPA"},
     R12 |-> {"R12_NAM", "R12_WEU", "R12_CHN", "R12_RCPA"},
     R20 |-> {"R20_NAM", "R20_WEU", "R20_CHN"}]

\* the "iea-weo-region" annotation of each node
WeoRegionOf ==
    [R11_NAM |-> "United States", R11_WEU |-> "Europe", R11_CPA |-> "China",
     R12_NAM |-> "United States", R12_WEU |-> "Europe", R12_CHN |-> "China",
     R12_RCPA |-> "China",
     R20_NAM |-> "United States", R20_WEU |-> "Europe", R20_CHN |-> "China"]

\* get_weo_region_map(regions): MESSAGE node ID -> WEO region name
get_weo_region_map(regions) == [n \in NodeRegions[regions] |-> WeoRegionOf[n]]

\* str.upper() on the identifiers a configuration may hold
UpperTable ==
    [r11 |-> "R11", r12 |-> "R12", r20 |-> "R20",
     r11_nam |-> "R11_NAM", r12_nam |-> "R12_NAM", r20_nam |-> "R20_NAM",
     r12_chn |-> "R12_CHN", r12_weu |-> "R12_WEU"]

Upper(s) == IF s \in DOMAIN UpperTable THEN UpperTable[s] ELSE s

\* the WEO workbook: technologies (DICT_TECH_ROWS), cost types (DICT_COST_COLS),
\* the region rows and the year columns of each block
WeoTechs == {"ccgt", "nuclear"}
CostTypes == {"inv_cost", "fix_cost"}
WeoRegions == {"United States", "Europe", "China"}
WeoYears == {"2021", "2030"}

\* a cell: <<>> is "n.a.", <<v>> the number v
NA == <<>>
Cells == {NA} \cup {<<v>> : v \in 1..MaxCost}

\* registry("1.0 USD_2021").to("USD_2005").magnitude
conversion_factor == Rat(3, 4)

\* the blocks of the workbook other than ccgt's investment costs
FixedWeo ==
    [t \in WeoTechs, c \in CostTypes |->
        IF t = "ccgt"
        THEN [r \in WeoRegions, y \in WeoYears |->
                CASE r = "United States" -> <<1>>
                  [] r = "Europe" -> IF y = "2021" THEN NA ELSE <<2>>
                  [] r = "China" -> <<2>>]
        ELSE IF c = "inv_cost"
        THEN [r \in WeoRegions, y \in WeoYears |->
                CASE r = "United States" -> <<4>>
                  [] r = "Europe" -> IF y = "2021" THEN <<6>> ELSE <<5>>
                  [] r = "China" -> <<2>>]
        ELSE [r \in WeoRegions, y \in WeoYears |->
                CASE r = "United States" -> <<2>>
                  [] r = "Europe" -> <<3>>
                  [] r = "China" -> IF y = "2021" THEN NA ELSE <<1>>]]

\* the workbook, given the block of ccgt's investment costs
WeoSheet(weo_inv) ==
    [t \in WeoTechs, c \in CostTypes |->
        IF t = "ccgt" /\ c = "inv_cost" THEN weo_inv ELSE FixedWeo[t, c]]

\* all_cost_df: one row per cell, "n.a." replaced by NaN, converted to USD_2005
AllCostDf(sheet) ==
    {[cost_type |-> c, weo_technology |-> t, weo_region |-> r, year |-> y,
      value |-> IF sheet[t, c][r, y] = NA THEN NaN
                ELSE RMul(Num(sheet[t, c][r, y][1]), conversion_factor)] :
        t \in WeoTechs, c \in CostTypes, r \in WeoRegions, y \in WeoYears}

Values(rows) == LET xs == SetToSeq(rows) IN [i \in 1..Len(xs) |-> xs[i].value]

\* a median taken over the technology's rows of both cost types
WeoMedianByTech(df, t, c) == Median(Values({x \in df : x.weo_technology = t}))

\* df_median: groupby(["weo_technology", "cost_type"]).agg(median)
WeoMedian(df, t, c) ==
    Median(Values({x \in df : x.weo_technology = t /\ x.cost_type = c}))

\* get_weo_data(): the cost table with missing values replaced by the median
get_weo_data(sheet) ==
    LET all_cost_df == AllCostDf(sheet)
    IN  {[cost_type |-> x.cost_type, weo_technology |-> x.weo_technology,
          weo_region |-> x.weo_region, year |-> x.year,
          value |-> IF IsNull(x.value)
                    THEN WeoMedian(all_cost_df, x.weo_technology, x.cost_type)
                    ELSE x.value] : x \in all_cost_df}

\* the result of a function call: a table, or the exception raised
Returned(table) == [err |-> "none", table |-> table]
Raised(e) == [err |-> e, table |-> {}]

RefNone == "None"

\* a reference region compared as given, without upper-casing
RefAsGiven(ref_region) == ref_region

\* config.ref_region.upper() / ref_region.upper()
RefUpper(ref_region) == Upper(ref_region)

\* df_sel_weo: the 2021 rows of the WEO table mapped to each MESSAGE node
DfSelWeo(df_weo, node) ==
    LET map == get_weo_region_map(node)
    IN  {[cost_type |-> x.cost_type, weo_technology |-> x.weo_technology,
          weo_region |-> x.weo_region, region |-> n, year |-> x.year,
          weo_cost |-> x.value] :
            <<n, x>> \in {<<n, x>> \in (DOMAIN map) \X df_weo :
                             x.year = "2021" /\ x.weo_region = map[n]}}

\* ratios taken to the first region's cost, whatever the reference region is
WeoRegRatiosFirst(df_sel_weo, ref_region) ==
    LET first == CHOOSE r \in {x.region : x \in df_sel_weo} : r # ref_region
        ref_rows == {x \in df_sel_weo : x.region = first /\ x.cost_type = "inv_cost"}
        inv_rows == {x \in df_sel_weo : x.cost_type = "inv_cost"}
    IN  {[weo_technology |-> p[2].weo_technology, region |-> p[2].region,
          weo_ref_region_cost |-> p[1].weo_cost,
          reg_cost_ratio |-> RDiv(p[2].weo_cost, p[1].weo_cost)] :
            p \in {q \in ref_rows \X inv_rows :
                     q[1].weo_technology = q[2].weo_technology /\ q[1].year = q[2].year}}

\* df_reg_ratios: each region's investment cost over the reference region's
WeoRegRatios(df_sel_weo, ref_region) ==
    LET ref_rows == {x \in df_sel_weo : x.region = ref_region /\ x.cost_type = "inv_cost"}
        inv_rows == {x \in df_sel_weo : x.cost_type = "inv_cost"}
    IN  {[weo_technology |-> p[2].weo_technology, region |-> p[2].region,
          weo_ref_region_cost |-> p[1].weo_cost,
          reg_cost_ratio |-> RDiv(p[2].weo_cost, p[1].weo_cost)] :
            p \in {q \in ref_rows \X inv_rows :
                     q[1].weo_technology = q[2].weo_technology /\ q[1].year = q[2].year}}

\* df_fom_inv: fixed O&M cost over investment cost, per technology and region
WeoFomInv(df_sel_weo) ==
    LET df_inv == {x \in df_sel_weo : x.cost_type = "inv_cost" /\ x.year = "2021"}
        df_fix == {x \in df_sel_weo : x.cost_type = "fix_cost" /\ x.year = "2021"}
    IN  {[weo_technology |-> p[1].weo_technology, region |-> p[1].region,
          weo_fix_ratio |-> RDiv(p[2].weo_cost, p[1].weo_cost)] :
            p \in {q \in df_inv \X df_fix :
                     /\ q[1].weo_technology = q[2].weo_technology
                     /\ q[1].weo_region = q[2].weo_region
                     /\ q[1].region = q[2].region}}

\* get_weo_regional_differentiation(config), reading the workbook `sheet`
get_weo_regional_differentiation(node, ref_region, sheet) ==
    LET df_sel_weo == DfSelWeo(get_weo_data(sheet), node)
        ref == RefUpper(ref_region)
        df_reg_ratios == WeoRegRatios(df_sel_weo, ref)
        df_fom_inv == WeoFomInv(df_sel_weo)
    IN  IF ref_region = RefNone THEN Raised("AssertionError")
        ELSE IF ref \notin {x.region : x \in df_sel_weo} THEN Raised("ValueError")
        ELSE Returned(
            {[weo_technology |-> p[1].weo_technology, region |-> p[1].region,
              weo_ref_region_cost |-> p[1].weo_ref_region_cost,
              reg_cost_ratio |-> p[1].reg_cost_ratio,
              weo_fix_ratio |-> p[2].weo_fix_ratio] :
                p \in {q \in df_reg_ratios \X df_fom_inv :
                         /\ q[1].weo_technology = q[2].weo_technology
                         /\ q[1].region = q[2].region}})

\* adapt_R11_R12 (util/node.py, not among the sources): each R11 region's rows
\* are relabelled to the R12 regions it corresponds to
R11ToR12 ==
    [R11_NAM |-> {"R12_NAM"}, R11_WEU |-> {"R12_WEU"}, R11_CPA |-> {"R12_CHN", "R12_RCPA"}]

adapt_R11_R12(df) ==
    {[node |-> n, value |-> x.value] : <<n, x>> \in {<<n, x>> \in NodeRegions["R12"] \X df :
                                                        n \in R11ToR12[x.node]}}

\* get_intratec_data(): the index of each R11 region
get_intratec_data(intratec) ==
    {[node |-> r, value |-> Num(intratec[r])] : r \in NodeRegions["R11"]}

\* df_reg_ratios: each region's index over the reference region's
IntratecRegRatios(df_intratec_map, ref_region) ==
    LET ref_rows == {x \in df_intratec_map : x.region = ref_region}
    IN  {[intratec_tech |-> p[2].intratec_tech, region |-> p[2].region,
          intratec_ref_region_cost |-> p[1].intratec_index,
          reg_cost_ratio |-> RDiv(p[2].intratec_index, p[1].intratec_index)] :
            p \in {q \in ref_rows \X df_intratec_map :
                     q[1].intratec_tech = q[2].intratec_tech}}

\* get_intratec_regional_differentiation(node, ref_region), reading the indices
get_intratec_regional_differentiation(node, ref_region, intratec) ==
    LET df_intratec == get_intratec_data(intratec)
        mapped == IF Upper(node) = "R11" THEN df_intratec ELSE adapt_R11_R12(df_intratec)
        df_intratec_map ==
            {[region |-> x.node, intratec_index |-> x.value, intratec_tech |-> "all"] :
                x \in mapped}
        ref == RefUpper(ref_region)
    IN  IF Upper(node) = "R20" THEN Raised("NotImplementedError")
        ELSE IF Upper(node) \notin {"R11", "R12"} THEN Raised("UnboundLocalError")
        ELSE IF ref_region = RefNone THEN Raised("AttributeError")
        ELSE IF ref \notin {x.region : x \in df_intratec_map} THEN Raised("ValueError")
        ELSE Returned(IntratecRegRatios(df_intratec_map, ref))

(***************************************************************************)
(* One run of the regional differentiation functions on one workbook, one  *)
(* index file and one configuration                                        *)
(***************************************************************************)
Nodes == {"R11", "R12", "R20"}
RefRegions == {RefNone, "R12_NAM", "r12_nam", "R12_WEU", "R12_CHN", "R11_NAM"}

\* blocks of cells; the 2030 cell of the United States always holds a number
WeoInvBlocks ==
    {w \in [WeoRegions \X WeoYears -> Cells] : w[<<"United States", "2030">>] = <<1>>}

FixedWeoInv ==
    [r \in WeoRegions, y \in WeoYears |->
        CASE r = "United States" -> <<2>>
          [] r = "Europe" -> IF y = "2021" THEN NA ELSE <<1>>
          [] r = "China" -> IF y = "2021" THEN <<1>> ELSE <<2>>]

FixedIntratec == [r \in NodeRegions["R11"] |-> IF r = "R11_NAM" THEN 2 ELSE 1]

RegDiffInputs ==
    {[weo_inv |-> w, intratec |-> FixedIntratec, node |-> n, ref_region |-> r] :
        w \in WeoInvBlocks, n \in Nodes, r \in RefRegions}
    \cup
    {[weo_inv |-> FixedWeoInv, intratec |-> i, node |-> n, ref_region |-> r] :
        i \in [NodeRegions["R11"] -> 1..MaxCost], n \in Nodes, r \in RefRegions}

RegDiffFunctions ==
    {"get_weo_data", "get_weo_regional_differentiation",
     "get_intratec_regional_differentiation"}

InitRegDiff ==
    /\ CliIdle
    /\ err = "none"
    /\ stage = {}
    /\ inp \in RegDiffInputs
    /\ out = [weo_data |-> {}, weo_diff |-> {}, intratec_diff |-> {},
              raised |-> [f \in RegDiffFunctions |-> "none"]]

GetWeoData ==
    /\ err = "none" /\ stage = {}
    /\ stage' = stage \cup {"get_weo_data"}
    /\ out' = [out EXCEPT !.weo_data = get_weo_data(WeoSheet(inp.weo_inv))]
    /\ UNCHANGED <<inp, err, ctx, ret, call, ncalls, file, lastStore>>

GetWeoRegionalDifferentiation ==
    /\ err = "none" /\ stage = {}
    /\ LET r == get_weo_regional_differentiation(inp.node, inp.ref_region,
                                                 WeoSheet(inp.weo_inv))
       IN  /\ out' = [out EXCEPT !.weo_diff = r.table,
                                 !.raised["get_weo_regional_differentiation"] = r.err]
           /\ err' = r.err
    /\ stage' = stage \cup {"get_weo_regional_differentiation"}
    /\ UNCHANGED <<inp, ctx, ret, call, ncalls, file, lastStore>>

GetIntratecRegionalDifferentiation ==
    /\ err = "none" /\ stage \in {{}, {"get_weo_regional_differentiation"}}
    /\ LET r == get_intratec_regional_differentiation(inp.node, inp.ref_region,
                                                      inp.intratec)
       IN  /\ out' = [out EXCEPT !.intratec_diff = r.table,
                                 !.raised["get_intratec_regional_differentiation"] = r.err]
           /\ err' = r.err
    /\ stage' = stage \cup {"get_intratec_regional_differentiation"}
    /\ UNCHANGED <<inp, ctx, ret, call, ncalls, file, lastStore>>

NextRegDiff ==
    GetWeoData \/ GetWeoRegionalDifferentiation \/ GetIntratecRegionalDifferentiation

SpecRegDiff == InitRegDiff /\ [][NextRegDiff]_vars

(***************************************************************************)
(* Properties of the regional differentiation functions                    *)
(***************************************************************************)
Ran(f) == f \in stage
Ok(f) == Ran(f) /\ out.raised[f] = "none"

\* the converted numbers of a set of cells of block (t, c) of the workbook
CellValues(t, c, keys) ==
    LET sheet == WeoSheet(inp.weo_inv)
        ks == SetToSeq({k \in keys : sheet[t, c][k] # NA})
    IN  [i \in 1..Len(ks) |-> RMul(Num(sheet[t, c][ks[i]][1]), conversion_factor)]

WeoRow(t, c, r, y) ==
    {x \in out.weo_data : /\ x.weo_technology = t /\ x.cost_type = c
                          /\ x.weo_region = r /\ x.year = y}

\* the original statement of C8: a missing cost is replaced by the median of the
\* other regions' non-missing costs of the same technology and cost type
C8_OtherRegionsMedian ==
    Ran("get_weo_data") =>
        \A t \in WeoTechs, c \in CostTypes, r \in WeoRegions, y \in WeoYears :
            WeoSheet(inp.weo_inv)[t, c][<<r, y>>] = NA =>
                \A x \in WeoRow(t, c, r, y) :
                    x.value = Median(CellValues(t, c, (WeoRegions \ {r}) \X WeoYears))

\* C8 (amended): in the table get_weo_data returns, a cost that is missing in the
\* workbook is replaced by the median of all non-missing costs of the same
\* technology and cost type, over every region and every year (so the costs of the
\* same region in other years count too); a cost that is present is kept, converted
C8_MedianImputation ==
    Ran("get_weo_data") =>
        \A t \in WeoTechs, c \in CostTypes, r \in WeoRegions, y \in WeoYears :
            /\ Cardinality(WeoRow(t, c, r, y)) = 1
            /\ \A x \in WeoRow(t, c, r, y) :
                 LET cell == WeoSheet(inp.weo_inv)[t, c][<<r, y>>]
                 IN  IF cell = NA
                     THEN x.value = Median(CellValues(t, c, WeoRegions \X WeoYears))
                     ELSE x.value = RMul(Num(cell[1]), conversion_factor)

\* a missing cost whose replacement is not the median of the other regions' costs
C8_Witness ==
    /\ Ran("get_weo_data")
    /\ inp.weo_inv[<<"Europe", "2021">>] = NA
    /\ inp.weo_inv[<<"Europe", "2030">>] # NA
    /\ \E x \in WeoRow("ccgt", "inv_cost", "Europe", "2021") :
         /\ ~IsNull(x.value)
         /\ x.value # Median(CellValues("ccgt", "inv_cost",
                                        (WeoRegions \ {"Europe"}) \X WeoYears))

\* the 2021 investment cost of technology t in the WEO region of node r
WeoCost(t, r) ==
    LET rows == {x \in get_weo_data(WeoSheet(inp.weo_inv)) :
                    /\ x.weo_technology = t /\ x.cost_type = "inv_cost"
                    /\ x.weo_region = WeoRegionOf[r] /\ x.year = "2021"}
    IN  (CHOOSE x \in rows : TRUE).value

\* the Intratec index of the R11 region a node stands for
R11Of ==
    [R11_NAM |-> "R11_NAM", R11_WEU |-> "R11_WEU", R11_CPA |-> "R11_CPA",
     R12_NAM |-> "R11_NAM", R12_WEU |-> "R11_WEU", R12_CHN |-> "R11_CPA",
     R12_RCPA |-> "R11_CPA"]

IntratecCost(r) == Num(inp.intratec[R11Of[r]])

IntratecMapped == {"R11", "R12"}

\* C9: given a reference region, get_weo_regional_differentiation and (for the
\* node sets it maps the data to) get_intratec_regional_differentiation raise
\* ValueError, returning no table, exactly when the upper-cased reference region is
\* not among the regions of the mapped source data
C9_RefRegionAbsent ==
    LET absent == Upper(inp.ref_region) \notin NodeRegions[inp.node]
        weo == "get_weo_regional_differentiation"
        intratec == "get_intratec_regional_differentiation"
    IN  inp.ref_region # RefNone =>
          /\ Ran(weo) =>
               /\ (out.raised[weo] = "ValueError") <=> absent
               /\ absent => out.weo_diff = {} /\ err = "ValueError"
               /\ ~absent => out.raised[weo] = "none" /\ out.weo_diff # {}
          /\ Ran(intratec) /\ inp.node \in IntratecMapped =>
               /\ (out.raised[intratec] = "ValueError") <=> absent
               /\ absent => out.intratec_diff = {} /\ err = "ValueError"
               /\ ~absent => out.raised[intratec] = "none" /\ out.intratec_diff # {}

\* a lower-case reference region that is absent once upper-cased
C9_Witness ==
    /\ Ran("get_intratec_regional_differentiation")
    /\ inp.node = "R11" /\ inp.ref_region = "r12_nam"
    /\ out.raised["get_intratec_regional_differentiation"] = "ValueError"
    /\ out.intratec_diff = {}

(***************************************************************************)
(* tools/costs/gdp.py                                                      *)
(***************************************************************************)
\* the node files: the countries of each region
NodeChildren ==
    [R11 |-> [R11_NAM |-> {"USA", "CAN"}, R11_WEU |-> {"DEU"}, R11_CPA |-> {"CHN"}],
     R12 |-> [R12_NAM |-> {"USA", "CAN"}, R12_WEU |-> {"DEU"}, R12_CHN |-> {"CHN"},
              R12_RCPA |-> {"VNM"}],
     R20 |-> [R20_NAM |-> {"USA", "CAN"}, R20_WEU |-> {"DEU"}, R20_CHN |-> {"CHN"}]]

\* regions_countries: one row per (region, country)
regions_countries(node_up) ==
    {[region |-> p[1], country_alpha_3 |-> p[2]] :
        p \in {q \in (DOMAIN NodeChildren[node_up]) \X UNION {NodeChildren[node_up][r] :
                        r \in DOMAIN NodeChildren[node_up]} :
                 q[2] \in NodeChildren[node_up][q[1]]}}

\* the SSP file: scenario versions, countries (ATA is in no region) and year columns
ScenarioVersions == {"SSP2 - Review Phase 1", "SSP3 (2013)"}
SspCountries == {"USA", "CAN", "DEU", "CHN", "ATA"}
SspYears == {2015, 2020, 2025}
GdpCountries == {"USA", "DEU"}

\* scenario_version.str[:4]
ScenarioOf == [v \in ScenarioVersions |-> IF v = "SSP3 (2013)" THEN "SSP3" ELSE "SSP2"]

\* scenario_version.str.contains("2013")
Contains2013(v) == v = "SSP3 (2013)"

\* the rows of the file after melt: `gdp` gives the GDP|PPP cell of each country in
\* 2015 and 2020 (2025 is one more), `covered` the countries the 2013 version has
SspFile(gdp, covered) ==
    LET cell(c) == IF c \in GdpCountries THEN gdp[c] ELSE <<1>>
        value(c, var, y) ==
            IF var = "Population" THEN (IF c = "CHN" THEN Num(2) ELSE One)
            ELSE IF cell(c) = NA THEN NaN
            ELSE Num(cell(c)[1] + (IF y = 2025 THEN 1 ELSE 0))
    IN  {[scenario_version |-> p[1], country_alpha_3 |-> p[2], variable |-> p[3],
          year |-> p[4], value |-> value(p[2], p[3], p[4])] :
            p \in {q \in ScenarioVersions \X SspCountries \X {"GDP|PPP", "Population"}
                              \X SspYears :
                     Contains2013(q[1]) => q[2] \in covered}}

\* pandas "sum" of a column: NaN skipped, 0 when nothing is left
RECURSIVE SumSkipNa(_)
SumSkipNa(xs) ==
    IF xs = <<>> THEN Zero
    ELSE RAdd(IF IsNaN(Head(xs)) THEN Zero ELSE Head(xs), SumSkipNa(Tail(xs)))

\* the reference region when none is given
DefaultRefRegion(input_node, input_ref_region) ==
    IF input_ref_region # RefNone THEN input_ref_region
    ELSE CASE Upper(input_node) = "R11" -> "R11_NAM"
           [] Upper(input_node) = "R12" -> "R12_NAM"
           [] Upper(input_node) = "R20" -> "R20_NAM"
           [] OTHER -> RefNone

\* population per GDP instead of GDP per capita
GdpPerCapitaInverted(node_up, rows) ==
    LET rc == regions_countries(node_up)
        keys == {<<x.scenario_version, m.region, x.year>> :
                    <<x, m>> \in {<<x, m>> \in rows \X rc :
                                    x.country_alpha_3 = m.country_alpha_3}}
        total(k, var) ==
            SumSkipNa(Values({x \in rows :
                /\ x.scenario_version = k[1] /\ x.year = k[3] /\ x.variable = var
                /\ x.country_alpha_3 \in NodeChildren[node_up][k[2]]}))
    IN  {[scenario_version |-> k[1], scenario |-> ScenarioOf[k[1]], region |-> k[2],
          year |-> k[3], total_gdp |-> total(k, "GDP|PPP"),
          total_population |-> total(k, "Population"),
          gdp_ppp_per_capita |-> RDiv(total(k, "Population"), total(k, "GDP|PPP"))] :
            k \in keys}

\* df before the ratio step: GDP and population summed per region, and their quotient
GdpPerCapita(node_up, rows) ==
    LET rc == regions_countries(node_up)
        keys == {<<x.scenario_version, m.region, x.year>> :
                    <<x, m>> \in {<<x, m>> \in rows \X rc :
                                    x.country_alpha_3 = m.country_alpha_3}}
        total(k, var) ==
            SumSkipNa(Values({x \in rows :
                /\ x.scenario_version = k[1] /\ x.year = k[3] /\ x.variable = var
                /\ x.country_alpha_3 \in NodeChildren[node_up][k[2]]}))
    IN  {[scenario_version |-> k[1], scenario |-> ScenarioOf[k[1]], region |-> k[2],
          year |-> k[3], total_gdp |-> total(k, "GDP|PPP"),
          total_population |-> total(k, "Population"),
          gdp_ppp_per_capita |-> RDiv(total(k, "GDP|PPP"), total(k, "Population"))] :
            k \in keys}

\* a merge on every column but the reference region's, keeping all rows of df
GdpRatiosLeft(df, reference_region) ==
    {[scenario_version |-> x.scenario_version, scenario |-> x.scenario,
      region |-> x.region, year |-> x.year, gdp_ppp_per_capita |-> x.gdp_ppp_per_capita,
      gdp_ratio_reg_to_reference |->
         LET refs == {r \in df : /\ r.region = reference_region
                                 /\ r.scenario_version = x.scenario_version
                                 /\ r.scenario = x.scenario /\ r.year = x.year}
         IN  IF refs = {} THEN NaN
             ELSE RDiv(x.gdp_ppp_per_capita, (CHOOSE r \in refs : TRUE).gdp_ppp_per_capita)] :
        x \in df}

\* pd.merge of df with its reference-region rows, and the ratio column
GdpRatios(df, reference_region) ==
    LET refs == {x \in df : x.region = reference_region}
    IN  {[scenario_version |-> p[1].scenario_version, scenario |-> p[1].scenario,
          region |-> p[1].region, year |-> p[1].year,
          gdp_ppp_per_capita |-> p[1].gdp_ppp_per_capita,
          gdp_ratio_reg_to_reference |->
              RDiv(p[1].gdp_ppp_per_capita, p[2].gdp_ppp_per_capita)] :
            p \in {q \in df \X refs : /\ q[1].scenario_version = q[2].scenario_version
                                      /\ q[1].scenario = q[2].scenario
                                      /\ q[1].year = q[2].year}}

\* a copy made of every scenario's rows
DfLedAll(df) == {[x EXCEPT !.scenario = "LED"] : x \in df}

\* df_led: the rows of SSP2, relabelled LED
DfLed(df) == {[x EXCEPT !.scenario = "LED"] : x \in {y \in df : y.scenario = "SSP2"}}

\* the results of process_raw_ssp_data: an exception, None, or the table (with the
\* table before the ratio step)
GdpRaised(e) == [err |-> e, none |-> FALSE, before |-> {}, table |-> {}]
GdpNone(df) == [err |-> "none", none |-> TRUE, before |-> df, table |-> {}]
GdpReturned(df, table) == [err |-> "none", none |-> FALSE, before |-> df, table |-> table]

process_raw_ssp_data(input_node, input_ref_region, rows) ==
    LET node_up == Upper(input_node)
        df == GdpPerCapita(node_up, rows)
        reference_region == Upper(DefaultRefRegion(input_node, input_ref_region))
        ratios == GdpRatios(df, reference_region)
        df_led == DfLed(ratios)
    IN  IF node_up \notin {"R11", "R12", "R20"} THEN GdpRaised("FileNotFoundError")
        ELSE IF reference_region \notin {x.region : x \in df} THEN GdpNone(df)
        ELSE GdpReturned(df, ratios \cup df_led)

\* scipy.stats.linregress(x, y) on two points: slope and intercept.  Identical x
\* values make the fit undefined: depending on the scipy version the call raises
\* ValueError (`raises`) or returns NaN
linregress(x, y, raises) ==
    LET xmean == RDiv(RAdd(x[1], x[2]), Num(2))
        ymean == RDiv(RAdd(y[1], y[2]), Num(2))
        dx == [i \in 1..2 |-> RSub(x[i], xmean)]
        dy == [i \in 1..2 |-> RSub(y[i], ymean)]
        ssxm == RDiv(RAdd(RMul(dx[1], dx[1]), RMul(dx[2], dx[2])), Num(2))
        ssxym == RDiv(RAdd(RMul(dx[1], dy[1]), RMul(dx[2], dy[2])), Num(2))
        slope == RDiv(ssxym, ssxm)
    IN  IF x[1] = x[2] /\ ~IsNaN(x[1]) /\ raises
        THEN [err |-> "ValueError", slope |-> NaN, intercept |-> NaN]
        ELSE [err |-> "none", slope |-> slope,
              intercept |-> RSub(ymean, RMul(slope, xmean))]

\* a fit that takes the observed point's cost ratio as the slope
indiv_regress_slope_only(df, reference_region, raises) ==
    [scenario_version |-> df.scenario_version, scenario |-> df.scenario,
     message_technology |-> df.message_technology, region |-> df.region,
     slope |-> IF df.region = reference_region THEN NaN ELSE df.reg_cost_ratio,
     intercept |-> IF df.region = reference_region THEN NaN ELSE Zero,
     err |-> "none"]

\* indiv_regress_tech_cost_ratio_vs_gdp_ratio(df) on the one-row group df
indiv_regress_tech_cost_ratio_vs_gdp_ratio(df, reference_region, raises) ==
    LET fit == linregress(<<One, df.gdp_ratio_reg_to_reference>>,
                          <<One, df.reg_cost_ratio>>, raises)
    IN  [scenario_version |-> df.scenario_version, scenario |-> df.scenario,
         message_technology |-> df.message_technology, region |-> df.region,
         slope |-> IF df.region = reference_region THEN NaN ELSE fit.slope,
         intercept |-> IF df.region = reference_region THEN NaN ELSE fit.intercept,
         err |-> IF df.region = reference_region THEN "none" ELSE fit.err]

Min(S) == CHOOSE x \in S : \A y \in S : x <= y

\* the result of calculate_indiv_adjusted_region_cost_ratios: an exception or the
\* table, with the fits (df_reg) and the base year it used
AdjRaised(e) == [err |-> e, df_reg |-> {}, base_year |-> 0, table |-> {}]

\* df_gdp_cost: the base-year GDP ratios merged with the cost ratios on region
DfGdpCost(gdp_base_year, df_cost_ratios) ==
    {[scenario_version |-> p[1].scenario_version, scenario |-> p[1].scenario,
      region |-> p[1].region,
      gdp_ratio_reg_to_reference |-> p[1].gdp_ratio_reg_to_reference,
      message_technology |-> p[2].message_technology,
      reg_cost_ratio |-> p[2].reg_cost_ratio] :
        p \in {q \in gdp_base_year \X df_cost_ratios : q[1].region = q[2].region}}

\* one row of df_adj_ratios, from a GDP row x and the fit merged to it
AdjRow(x, tech, slope, intercept, reference_region) ==
    [scenario_version |-> IF Contains2013(x.scenario_version)
                          THEN "Previous (2013)" ELSE "Review (2023)",
     scenario |-> x.scenario, message_technology |-> tech, region |-> x.region,
     year |-> x.year,
     gdp_ratio_reg_to_reference |-> x.gdp_ratio_reg_to_reference,
     reg_cost_ratio_adj |->
        IF x.region = reference_region THEN One
        ELSE RAdd(RMul(slope, x.gdp_ratio_reg_to_reference), intercept)]

FitOf(x, f) ==
    /\ f.scenario_version = x.scenario_version
    /\ f.scenario = x.scenario /\ f.region = x.region

\* df_adj_ratios: df_gdp left-merged with df_reg, from the base year on
DfAdjRatios(df_gdp, df_reg, base_year, reference_region) ==
    LET kept == {x \in df_gdp : x.year >= base_year}
    IN  {AdjRow(p[1], p[2].message_technology, p[2].slope, p[2].intercept,
                reference_region) : p \in {q \in kept \X df_reg : FitOf(q[1], q[2])}}
        \cup {AdjRow(x, "nan", NaN, NaN, reference_region) :
                x \in {y \in kept : \A f \in df_reg : ~FitOf(y, f)}}

\* a base year that is used as given
BaseYearAsGiven(df_gdp, input_base_year) == input_base_year

\* base_year: the given year if the GDP data have it, else their earliest year
BaseYear(df_gdp, input_base_year) ==
    LET years == {x.year : x \in df_gdp}
    IN  IF input_base_year \in years \/ years = {} THEN input_base_year ELSE Min(years)

\* df_reg: the fit of every (scenario_version, scenario, technology, region) group
DfReg(df_gdp_cost, reference_region, raises) ==
    {indiv_regress_tech_cost_ratio_vs_gdp_ratio(df, reference_region, raises) :
        df \in df_gdp_cost}

\* the part of the function after the fits
AdjFromFits(df_gdp, base_year, fits, reference_region) ==
    IF fits = {} \/ \E f \in fits : f.err # "none" THEN AdjRaised("ValueError")
    ELSE [err |-> "none", base_year |-> base_year,
          df_reg |-> {[g \in DOMAIN f \ {"err"} |-> f[g]] : f \in fits},
          table |-> DfAdjRatios(df_gdp, fits, base_year, reference_region)]

\* the part of the function after base_year is settled
AdjFromBaseYear(df_gdp, base_year, df_cost_ratios, reference_region, raises) ==
    AdjFromFits(df_gdp, base_year,
                DfReg(DfGdpCost({x \in df_gdp : x.year = base_year}, df_cost_ratios),
                      reference_region, raises),
                reference_region)

\* the part of the function after the call of process_raw_ssp_data
AdjFromGdp(gdp, df_cost_ratios, reference_region, input_base_year, raises) ==
    IF gdp.err # "none" THEN AdjRaised(gdp.err)
    ELSE IF gdp.none THEN AdjRaised("AttributeError")
    ELSE AdjFromBaseYear({x \in gdp.table : x.year >= 2020},
                         BaseYear({x \in gdp.table : x.year >= 2020}, input_base_year),
                         df_cost_ratios, reference_region, raises)

calculate_indiv_adjusted_region_cost_ratios(region_diff_df, input_node, input_ref_region, input_base_year, rows, raises) ==
    AdjFromGdp(process_raw_ssp_data(input_node, input_ref_region, rows), region_diff_df,
               DefaultRefRegion(input_node, input_ref_region), input_base_year, raises)

(***************************************************************************)
(* One run of the GDP functions on one SSP file and one configuration      *)
(***************************************************************************)
GdpNodes == {"R11", "r12", "R99"}
GdpRefRegions == {RefNone, "R12_NAM", "r12_weu", "R11_CPA"}
BaseYears == {2015, 2025}
Coverages == {SspCountries, {"DEU", "CHN"}, {"USA", "CAN", "CHN"}}

\* region_diff_df: the cost ratios of two technologies in the regions of the node
TechCost ==
    [coal_ppl |-> [NAM |-> 2, WEU |-> 3, CHN |-> 1, CPA |-> 1, RCPA |-> 1],
     gas_cc |-> [NAM |-> 1, WEU |-> 1, CHN |-> 2, CPA |-> 2, RCPA |-> 2]]

RegionSuffix ==
    [R11_NAM |-> "NAM", R11_WEU |-> "WEU", R11_CPA |-> "CPA",
     R12_NAM |-> "NAM", R12_WEU |-> "WEU", R12_CHN |-> "CHN", R12_RCPA |-> "RCPA"]

RegionDiffDf(input_node, input_ref_region) ==
    LET node_up == Upper(input_node)
        regions == IF node_up \in DOMAIN NodeRegions THEN NodeRegions[node_up] ELSE {}
        given == Upper(DefaultRefRegion(input_node, input_ref_region))
        ref == IF given \in regions THEN RegionSuffix[given] ELSE "NAM"
    IN  {[message_technology |-> t, region |-> r,
          reg_cost_ratio |-> RDiv(Num(TechCost[t][RegionSuffix[r]]), Num(TechCost[t][ref]))] :
            t \in DOMAIN TechCost, r \in regions}

GdpFunctions == {"process_raw_ssp_data", "calculate_indiv_adjusted_region_cost_ratios"}

InitGdp ==
    /\ CliIdle
    /\ err = "none"
    /\ stage = {}
    /\ inp \in [gdp : [GdpCountries -> Cells], covered : Coverages, node : GdpNodes,
                ref_region : GdpRefRegions, base_year : BaseYears]
    /\ out = [gdp |-> GdpNone({}), adj |-> AdjRaised("none"),
              raised |-> [f \in GdpFunctions |-> "none"]]

ProcessRawSspData ==
    /\ err = "none" /\ stage = {}
    /\ LET r == process_raw_ssp_data(inp.node, inp.ref_region,
                                     SspFile(inp.gdp, inp.covered))
       IN  /\ out' = [out EXCEPT !.gdp = r, !.raised["process_raw_ssp_data"] = r.err]
           /\ err' = r.err
    /\ stage' = stage \cup {"process_raw_ssp_data"}
    /\ UNCHANGED <<inp, ctx, ret, call, ncalls, file, lastStore>>

CalculateIndivAdjustedRegionCostRatios ==
    /\ err = "none" /\ stage = {}
    /\ \E raises \in BOOLEAN :
         LET r == calculate_indiv_adjusted_region_cost_ratios(
                      RegionDiffDf(inp.node, inp.ref_region), inp.node, inp.ref_region,
                      inp.base_year, SspFile(inp.gdp, inp.covered), raises)
         IN  /\ out' = [out EXCEPT !.adj = r,
                          !.raised["calculate_indiv_adjusted_region_cost_ratios"] = r.err]
             /\ err' = r.err
    /\ stage' = stage \cup {"calculate_indiv_adjusted_region_cost_ratios"}
    /\ UNCHANGED <<inp, ctx, ret, call, ncalls, file, lastStore>>

NextGdp == ProcessRawSspData \/ CalculateIndivAdjustedRegionCostRatios

SpecGdp == InitGdp /\ [][NextGdp]_vars

(***************************************************************************)
(* Properties of the GDP functions                                         *)
(***************************************************************************)
GdpRef == Upper(DefaultRefRegion(inp.node, inp.ref_region))

GdpTableMade == Ok("process_raw_ssp_data") /\ ~out.gdp.none

SameKey(x, y) ==
    /\ x.scenario_version = y.scenario_version /\ x.scenario = y.scenario
    /\ x.year = y.year

Finite(x) == x.d # 0

\* the original statement of C6: the reference region's ratio is 1 in every row, and
\* every row present before the ratio step is present after it
C6_RatioOneAndRowsKept ==
    GdpTableMade =>
        /\ \A x \in out.gdp.table :
             x.region = GdpRef => x.gdp_ratio_reg_to_reference = One
        /\ \A b \in out.gdp.before :
             \E x \in out.gdp.table : SameKey(x, b) /\ x.region = b.region

\* C6 (amended): in the table process_raw_ssp_data returns, the reference region's
\* row has gdp_ratio_reg_to_reference exactly 1 whenever its GDP per capita is a
\* finite non-zero number, and a row present before the ratio step is present after
\* it, once, exactly when the reference region has a row for the same
\* (scenario_version, scenario, year); the other rows are dropped
C6_GdpRatio ==
    GdpTableMade =>
        /\ \A x \in out.gdp.table :
             /\ x.region = GdpRef
             /\ Finite(x.gdp_ppp_per_capita) /\ x.gdp_ppp_per_capita # Zero
             => x.gdp_ratio_reg_to_reference = One
        /\ \A b \in out.gdp.before :
             Cardinality({x \in out.gdp.table : /\ SameKey(x, b) /\ x.region = b.region}) =
                 IF \E r \in out.gdp.before : SameKey(r, b) /\ r.region = GdpRef
                 THEN 1 ELSE 0

\* a table with the reference region at 1, another region not at 1, and a row of
\* the 2013 version dropped because the reference region has none there
C6_Witness ==
    /\ GdpTableMade
    /\ \E x \in out.gdp.table : x.region = GdpRef /\ x.gdp_ratio_reg_to_reference = One
    /\ \E x \in out.gdp.table :
         Finite(x.gdp_ratio_reg_to_reference) /\ x.gdp_ratio_reg_to_reference # One
    /\ \E b \in out.gdp.before : \A x \in out.gdp.table : ~SameKey(x, b)

AdjMade == Ok("calculate_indiv_adjusted_region_cost_ratios")

Renamed(v) == IF Contains2013(v) THEN "Previous (2013)" ELSE "Review (2023)"

\* the base-year rows of the adjusted table that belong to the fit f
BaseYearRows(f) ==
    {x \in out.adj.table :
        /\ x.scenario_version = Renamed(f.scenario_version) /\ x.scenario = f.scenario
        /\ x.message_technology = f.message_technology /\ x.region = f.region
        /\ x.year = out.adj.base_year}

CostRatio(f) ==
    (CHOOSE c \in RegionDiffDf(inp.node, inp.ref_region) :
        c.message_technology = f.message_technology /\ c.region = f.region).reg_cost_ratio

\* the original statement of C10: for every region but the reference region the fit
\* passes through (1, 1) and the adjusted ratio at the base year is the region's
\* reg_cost_ratio
C10_TwoPointFit ==
    AdjMade =>
        \A f \in out.adj.df_reg :
            f.region # GdpRef =>
                /\ RAdd(RMul(f.slope, One), f.intercept) = One
                /\ \A x \in BaseYearRows(f) : x.reg_cost_ratio_adj = CostRatio(f)

\* C10 (amended): for every region but the reference region whose base-year GDP
\* ratio is a finite number other than 1, the fit passes through (1, 1) and through
\* the region's (gdp_ratio, reg_cost_ratio) point, and the adjusted ratio at the
\* base year is the region's reg_cost_ratio
C10_TwoPointFitDistinct ==
    AdjMade =>
        \A f \in out.adj.df_reg :
            /\ BaseYearRows(f) # {}
            /\ \A x \in BaseYearRows(f) :
                 /\ f.region # GdpRef
                 /\ Finite(x.gdp_ratio_reg_to_reference)
                 /\ ~IsNaN(x.gdp_ratio_reg_to_reference)
                 /\ x.gdp_ratio_reg_to_reference # One
                 => /\ RAdd(RMul(f.slope, One), f.intercept) = One
                    /\ RAdd(RMul(f.slope, x.gdp_ratio_reg_to_reference), f.intercept)
                         = CostRatio(f)
                    /\ x.reg_cost_ratio_adj = CostRatio(f)

\* a fit with a slope that is a number other than 0
C10_Witness ==
    /\ AdjMade
    /\ \E f \in out.adj.df_reg :
         /\ f.region # GdpRef /\ ~IsNaN(f.slope) /\ f.slope # Zero
         /\ \E x \in BaseYearRows(f) :
              x.reg_cost_ratio_adj = CostRatio(f) /\ x.reg_cost_ratio_adj # One

(***************************************************************************)
(* tools/costs/splines.py                                                  *)
(***************************************************************************)
FIRST_MODEL_YEAR == 2020

SplineScenarios == {"SSP1", "SSP2"}
SplineRegions == {"R12_NAM", "R12_WEU", "R12_CHN"}
SplineYears == {2020, 2030, 2040}
ConvergenceYears == {2010, 2020, 2030, 2050}

\* the technologies: MESSAGE name |-> WEO name
SplineTechs == [coal_ppl |-> "steam_coal_subcritical", gas_cc |-> "ccgt"]

\* nam_learning_df: the learning-curve cost of the reference region per year
NamLearningDf(learning) ==
    {[scenario |-> s, message_technology |-> t, weo_technology |-> SplineTechs[t],
      year |-> y,
      inv_cost_learning_NAM |-> Num(learning[y] + (IF t = "gas_cc" THEN 1 ELSE 0))] :
        s \in SplineScenarios, t \in DOMAIN SplineTechs, y \in SplineYears}

\* adj_cost_ratios_df: the GDP-adjusted cost ratio per scenario, region and year
AdjCostRatiosDf(ratio) ==
    {[scenario_version |-> "Review (2023)", scenario |-> s, weo_technology |-> w,
      region |-> r, year |-> y,
      cost_ratio_adj |-> IF s = "SSP1" \/ y = 2020 THEN Num(ratio[r])
                         ELSE RDiv(Num(ratio[r] + 1), Num(2))] :
        s \in SplineScenarios, w \in {SplineTechs[t] : t \in DOMAIN SplineTechs},
        r \in SplineRegions, y \in SplineYears}

\* reg_diff_df: the base-year cost of each region and its ratio to the reference
RegDiffDf(ratio) ==
    {[message_technology |-> t, weo_technology |-> SplineTechs[t], region |-> r,
      cost_type |-> c, cost_ratio |-> Num(ratio[r]),
      cost_region_2021 |-> RMul(Num(3), Num(ratio[r]))] :
        t \in DOMAIN SplineTechs, r \in SplineRegions, c \in CostTypes}

\* a converging series that still applies the ratio in the convergence year
ConvergeAfter(x, convergence_year_flag) ==
    IF x.year <= FIRST_MODEL_YEAR THEN x.cost_region_2021
    ELSE IF x.year <= convergence_year_flag
    THEN RMul(x.inv_cost_learning_NAM, x.cost_ratio)
    ELSE x.inv_cost_learning_NAM

\* inv_cost_converge of a merged row
Converge(x, convergence_year_flag) ==
    IF x.year <= FIRST_MODEL_YEAR THEN x.cost_region_2021
    ELSE IF x.year < convergence_year_flag
    THEN RMul(x.inv_cost_learning_NAM, x.cost_ratio)
    ELSE x.inv_cost_learning_NAM

\* the three frames merged: a learning row, a ratio row and a base-year row
MergedRow(n, a, d) ==
    [scenario_version |-> a.scenario_version, scenario |-> n.scenario,
     message_technology |-> n.message_technology, weo_technology |-> n.weo_technology,
     region |-> a.region, year |-> n.year,
     inv_cost_learning_NAM |-> n.inv_cost_learning_NAM,
     cost_ratio_adj |-> a.cost_ratio_adj, cost_ratio |-> d.cost_ratio,
     cost_region_2021 |-> d.cost_region_2021]

project_adjusted_inv_costs(nam_learning_df, adj_cost_ratios_df, reg_diff_df, convergence_year_flag) ==
    LET merged ==
          {MergedRow(p[1], p[2], p[3]) :
              p \in {q \in nam_learning_df \X adj_cost_ratios_df
                             \X {d \in reg_diff_df : d.cost_type = "inv_cost"} :
                       /\ q[1].scenario = q[2].scenario
                       /\ q[1].weo_technology = q[2].weo_technology
                       /\ q[1].year = q[2].year
                       /\ q[1].message_technology = q[3].message_technology
                       /\ q[1].weo_technology = q[3].weo_technology
                       /\ q[2].region = q[3].region}}
    IN  {[scenario_version |-> x.scenario_version, scenario |-> x.scenario,
          message_technology |-> x.message_technology,
          weo_technology |-> x.weo_technology, region |-> x.region, year |-> x.year,
          inv_cost_learning_only |->
              IF x.year <= FIRST_MODEL_YEAR THEN x.cost_region_2021
              ELSE RMul(x.inv_cost_learning_NAM, x.cost_ratio),
          inv_cost_gdp_adj |->
              IF x.year <= FIRST_MODEL_YEAR THEN x.cost_region_2021
              ELSE RMul(x.inv_cost_learning_NAM, x.cost_ratio_adj),
          inv_cost_converge |-> Converge(x, convergence_year_flag)] : x \in merged}

(***************************************************************************)
(* One projection of the investment costs                                  *)
(***************************************************************************)
InitSplines ==
    /\ CliIdle
    /\ err = "none"
    /\ stage = {}
    /\ inp \in [learning : [SplineYears -> 1..MaxCost],
                ratio : {f \in [SplineRegions -> 1..MaxCost] : f["R12_NAM"] = 1},
                convergence_year_flag : ConvergenceYears]
    /\ out = {}

ProjectAdjustedInvCosts ==
    /\ err = "none" /\ stage = {}
    /\ out' = project_adjusted_inv_costs(NamLearningDf(inp.learning),
                                         AdjCostRatiosDf(inp.ratio), RegDiffDf(inp.ratio),
                                         inp.convergence_year_flag)
    /\ stage' = {"project_adjusted_inv_costs"}
    /\ UNCHANGED <<inp, err, ctx, ret, call, ncalls, file, lastStore>>

NextSplines == ProjectAdjustedInvCosts

SpecSplines == InitSplines /\ [][NextSplines]_vars

(***************************************************************************)
(* Properties of the projection                                            *)
(***************************************************************************)
SameSeries(x, y) ==
    /\ x.scenario = y.scenario /\ x.message_technology = y.message_technology
    /\ x.year = y.year

LearningValue(x) ==
    Num(inp.learning[x.year] + (IF x.message_technology = "gas_cc" THEN 1 ELSE 0))

\* the original statement of C7: from the convergence year on, whatever that year
\* is, inv_cost_converge is the same in all regions and is the learning-curve value
C7_ConvergeFromConvergenceYear ==
    Ran("project_adjusted_inv_costs") =>
        \A x \in out :
            x.year >= inp.convergence_year_flag =>
                /\ x.inv_cost_converge = LearningValue(x)
                /\ \A y \in out : SameSeries(x, y) =>
                     y.inv_cost_converge = x.inv_cost_converge

\* C7 (amended): in inv_cost_converge, for every year that is both at or after the
\* convergence year and after the first model year 2020, the value is the same in
\* all regions for a fixed (scenario, technology, year) and equals the learning-curve
\* value; in 2020 the value is the region's own base-year cost, also when the
\* convergence year is at or before 2020
C7_ConvergeAfterFirstYear ==
    Ran("project_adjusted_inv_costs") =>
        /\ \A s \in SplineScenarios, t \in DOMAIN SplineTechs, r \in SplineRegions,
              y \in SplineYears :
             \E x \in out : /\ x.scenario = s /\ x.message_technology = t
                            /\ x.region = r /\ x.year = y
        /\ \A x \in out :
             IF x.year <= FIRST_MODEL_YEAR
             THEN x.inv_cost_converge = RMul(Num(3), Num(inp.ratio[x.region]))
             ELSE x.year >= inp.convergence_year_flag =>
                    /\ x.inv_cost_converge = LearningValue(x)
                    /\ \A y \in out : SameSeries(x, y) =>
                         y.inv_cost_converge = x.inv_cost_converge

\* converged in the convergence year 2030 in a region whose ratio is not 1, while the
\* regions differ in 2020
C7_Witness ==
    /\ Ran("project_adjusted_inv_costs")
    /\ inp.convergence_year_flag = 2030
    /\ inp.ratio["R12_WEU"] # 1
    /\ \E x \in out : /\ x.region = "R12_WEU" /\ x.year = 2030
                      /\ x.inv_cost_converge = LearningValue(x)
                      /\ x.inv_cost_learning_only # x.inv_cost_converge
    /\ \E x, y \in out : /\ SameSeries(x, y) /\ x.year = 2020
                         /\ x.inv_cost_converge # y.inv_cost_converge

\* the reference region as the regression stage compares it: not upper-cased
RegressionRef == DefaultRefRegion(inp.node, inp.ref_region)

\* C11: in calculate_indiv_adjusted_region_cost_ratios the reference region has
\* null slope and intercept and reg_cost_ratio_adj exactly 1 in every row of the
\* output
C11_ReferencePinned ==
    AdjMade =>
        /\ \A f \in out.adj.df_reg :
             f.region = GdpRef => IsNaN(f.slope) /\ IsNaN(f.intercept)
        /\ \A x \in out.adj.table :
             x.region = GdpRef => x.reg_cost_ratio_adj = One

\* the GDP cell and the population cell of a country in the SSP file
GdpCell(c, y) ==
    IF c \in GdpCountries /\ inp.gdp[c] = NA THEN 0
    ELSE (IF c \in GdpCountries THEN inp.gdp[c][1] ELSE 1) + (IF y = 2025 THEN 1 ELSE 0)

PopCell(c) == IF c = "CHN" THEN 2 ELSE 1

RECURSIVE SumGdp(_, _)
SumGdp(S, y) ==
    IF S = {} THEN 0 ELSE LET c == CHOOSE c \in S : TRUE IN GdpCell(c, y) + SumGdp(S \ {c}, y)

RECURSIVE SumPop(_)
SumPop(S) ==
    IF S = {} THEN 0 ELSE LET c == CHOOSE c \in S : TRUE IN PopCell(c) + SumPop(S \ {c})

\* the member countries of a region that the scenario version has data for
Members(v, r) ==
    {c \in NodeChildren[Upper(inp.node)][r] \cap SspCountries :
        Contains2013(v) => c \in inp.covered}

ExpectedPerCapita(v, r, y) == RDiv(Num(SumGdp(Members(v, r), y)), Num(SumPop(Members(v, r))))

\* C12: in the table process_raw_ssp_data returns, gdp_ppp_per_capita of a
\* (scenario, region, year) is the sum of the member countries' GDP over the sum of
\* their population, and gdp_ratio_reg_to_reference is that value over the reference
\* region's for the same scenario and year
C12_GdpPerCapitaRatio ==
    GdpTableMade =>
        \A x \in out.gdp.table :
            /\ x.gdp_ppp_per_capita = ExpectedPerCapita(x.scenario_version, x.region, x.year)
            /\ x.gdp_ratio_reg_to_reference =
                   RDiv(ExpectedPerCapita(x.scenario_version, x.region, x.year),
                        ExpectedPerCapita(x.scenario_version, GdpRef, x.year))

\* a region at 2 per capita against a reference region at 3 per capita: ratio 2/3
C12_Witness ==
    /\ GdpTableMade
    /\ \E x \in out.gdp.table :
         /\ x.region # GdpRef /\ x.gdp_ppp_per_capita = Num(2)
         /\ x.gdp_ratio_reg_to_reference = Rat(2, 3)
         /\ \E r \in out.gdp.table :
              /\ r.region = GdpRef /\ SameKey(r, x) /\ r.gdp_ppp_per_capita = Num(3)

\* C13: the table process_raw_ssp_data returns has a scenario LED whose rows are
\* the rows of SSP2 with only the scenario label changed, and the rows of every
\* other scenario are those of the ratio step, unchanged
C13_LedCopy ==
    GdpTableMade =>
        /\ {[x EXCEPT !.scenario = "SSP2"] : x \in {y \in out.gdp.table : y.scenario = "LED"}}
             = {y \in out.gdp.table : y.scenario = "SSP2"}
        /\ {y \in out.gdp.table : y.scenario # "LED"}
             = GdpRatios(out.gdp.before, GdpRef)

\* a table with LED rows, SSP2 rows and rows of another scenario
C13_Witness ==
    /\ GdpTableMade
    /\ \E x \in out.gdp.table : x.scenario = "LED"
    /\ \E x \in out.gdp.table : x.scenario = "SSP2"
    /\ \E x \in out.gdp.table : x.scenario = "SSP3"

\* the years of the GDP series the function holds: those from 2020 on
GdpSeriesYears == {y \in SspYears : y >= 2020}

\* a region other than the regression's reference region whose GDP ratio in year y
\* is 1: its fit has two points with the same x
DegenerateAt(y) ==
    \E x \in process_raw_ssp_data(inp.node, inp.ref_region,
                                  SspFile(inp.gdp, inp.covered)).table :
        /\ x.year = y /\ x.region # RegressionRef
        /\ x.gdp_ratio_reg_to_reference = One

\* C14: in calculate_indiv_adjusted_region_cost_ratios a base year that is not among
\* the years of the GDP series (the years from 2020 on) is replaced by the earliest
\* year of the series and the computation goes on to a result; a base year that is
\* among them is used unchanged.  A ValueError is raised only for a fit on two
\* points with the same GDP ratio
C14_BaseYearFallback ==
    LET used == IF inp.base_year \in GdpSeriesYears THEN inp.base_year ELSE 2020
    IN  Ran("calculate_indiv_adjusted_region_cost_ratios") =>
          /\ AdjMade => out.adj.base_year = used
          /\ err = "ValueError" => DegenerateAt(used)

\* a result made with base year 2020 although 2015 was configured
C14_Witness ==
    /\ AdjMade
    /\ inp.base_year = 2015
    /\ out.adj.base_year = 2020
    /\ \E x \in out.adj.table : x.year = 2020 /\ x.reg_cost_ratio_adj # One
    /\ \A x \in out.adj.table : x.year >= 2020


(***************************************************************************)
(* regional_differentiation.py: apply_regional_differentiation             *)
(* A missing value of a text column is NullStr, of a number column NaN.    *)
(***************************************************************************)
NullStr == "nan"

\* np.where(x.base_year_reference_region_cost.isnull(), source cost, explicit),
\* always taking the source's cost
BaseCostFromSource(explicit, source_cost) == source_cost

\* np.where(x.base_year_reference_region_cost.isnull(), source cost, explicit)
BaseCost(explicit, source_cost) == IF IsNull(explicit) THEN source_cost ELSE explicit

\* np.where(x.fix_ratio.isnull(), default, x.fix_ratio)
FixRatio(explicit, default) == IF IsNull(explicit) THEN default ELSE explicit

\* a row of filt_weo, filt_intratec or filt_none after reindex
TechRow(m, region, base, ratio, fix) ==
    [message_technology |-> m.message_technology,
     reg_diff_source |-> m.reg_diff_source,
     reg_diff_technology |-> m.reg_diff_technology,
     region |-> region,
     base_year_reference_region_cost |-> base,
     reg_cost_ratio |-> ratio,
     fix_ratio |-> fix]

\* filt_weo: the "energy"/"weo" rows of the mapping left-merged with df_weo
FiltWeo(df_map, df_weo) ==
    LET rows == {m \in df_map : m.reg_diff_source \in {"energy", "weo"}}
    IN  {TechRow(p[1], p[2].region,
                 BaseCost(p[1].base_year_reference_region_cost, p[2].weo_ref_region_cost),
                 p[2].reg_cost_ratio,
                 FixRatio(p[1].fix_ratio, p[2].weo_fix_ratio)) :
            p \in {q \in rows \X df_weo : q[1].reg_diff_technology = q[2].weo_technology}}
        \cup
        {TechRow(m, NullStr, BaseCost(m.base_year_reference_region_cost, NaN), NaN,
                 FixRatio(m.fix_ratio, NaN)) :
            m \in {n \in rows : \A w \in df_weo : w.weo_technology # n.reg_diff_technology}}

\* filt_intratec: the "intratec" rows of the mapping left-merged with df_intratec
FiltIntratec(df_map, df_intratec) ==
    LET rows == {m \in df_map : m.reg_diff_source = "intratec"}
    IN  {TechRow(p[1], p[2].region,
                 BaseCost(p[1].base_year_reference_region_cost,
                          p[2].intratec_ref_region_cost),
                 p[2].reg_cost_ratio,
                 FixRatio(p[1].fix_ratio, Zero)) :
            p \in {q \in rows \X df_intratec : q[1].reg_diff_technology = q[2].intratec_tech}}
        \cup
        {TechRow(m, NullStr, BaseCost(m.base_year_reference_region_cost, NaN), NaN,
                 FixRatio(m.fix_ratio, Zero)) :
            m \in {n \in rows : \A w \in df_intratec : w.intratec_tech # n.reg_diff_technology}}

\* un_reg: the regions found in filt_intratec, each with reg_cost_ratio 1
UnReg(filt_intratec) == {x.region : x \in filt_intratec}

\* filt_none: the rows of the mapping without a source, left-merged with un_reg
FiltNone(df_map, un_reg) ==
    LET rows == {m \in df_map : m.reg_diff_source = NullStr}
    IN  IF un_reg = {}
        THEN {TechRow(m, NullStr, m.base_year_reference_region_cost, NaN,
                      FixRatio(m.fix_ratio, Zero)) : m \in rows}
        ELSE {TechRow(p[1], p[2], p[1].base_year_reference_region_cost, One,
                      FixRatio(p[1].fix_ratio, Zero)) : p \in rows \X un_reg}

\* all_tech: the three tables together, with the regional cost of the base year
AllTech(filt_weo, filt_intratec, filt_none) ==
    {[message_technology |-> x.message_technology,
      reg_diff_source |-> x.reg_diff_source,
      reg_diff_technology |-> x.reg_diff_technology,
      region |-> x.region,
      base_year_reference_region_cost |-> x.base_year_reference_region_cost,
      reg_cost_ratio |-> x.reg_cost_ratio,
      fix_ratio |-> x.fix_ratio,
      reg_cost_base_year |-> RMul(x.base_year_reference_region_cost, x.reg_cost_ratio)] :
        x \in filt_weo \cup filt_intratec \cup filt_none}

\* a row of a technology mapping (tech_map_{module}.csv)
MapRow(t, s, d, b, f) ==
    [message_technology |-> t, reg_diff_source |-> s, reg_diff_technology |-> d,
     base_year_reference_region_cost |-> b, fix_ratio |-> f]

\* Series.round(): the nearest integer, a half going to the even neighbour
Round(x) ==
    IF IsNull(x) THEN x
    ELSE LET q == (2 * x.n + x.d) \div (2 * x.d)
         IN  IF (2 * x.n + x.d) % (2 * x.d) = 0 /\ q % 2 = 1 THEN Num(q - 1) ELSE Num(q)

\* a subset that keeps the base costs as they are in the file
subset_materials_map_unrounded(raw_map) ==
    {m \in raw_map : m.reg_diff_source # NullStr
                     \/ ~IsNull(m.base_year_reference_region_cost)}

\* subset_materials_map(raw_map): the rows with a source or a base cost, the base
\* cost rounded
subset_materials_map(raw_map) ==
    {[m EXCEPT !.base_year_reference_region_cost = Round(@)] :
        m \in {n \in raw_map : n.reg_diff_source # NullStr
                               \/ ~IsNull(n.base_year_reference_region_cost)}}

\* materials_replace: every row of the energy mapping (right merge), its base cost
\* replaced by the non-null base cost of the materials row of the same technology
MaterialsReplace(sub_map_materials, raw_map_energy) ==
    {MapRow(p[2].message_technology, p[2].reg_diff_source, p[2].reg_diff_technology,
            IF ~IsNull(p[1].base_year_reference_region_cost)
            THEN p[1].base_year_reference_region_cost
            ELSE p[2].base_year_reference_region_cost, NaN) :
        p \in {q \in sub_map_materials \X raw_map_energy :
                 q[1].message_technology = q[2].message_technology}}
    \cup
    {MapRow(e.message_technology, e.reg_diff_source, e.reg_diff_technology,
            e.base_year_reference_region_cost, NaN) :
        e \in {x \in raw_map_energy :
                 \A m \in sub_map_materials : m.message_technology # x.message_technology}}

\* materials_map_energy: the materials rows of source "energy", left-merged with
\* the energy technology they name
MaterialsMapEnergy(sub_map_materials, raw_map_energy) ==
    LET rows == {m \in sub_map_materials : m.reg_diff_source = "energy"}
    IN  {MapRow(p[1].message_technology, p[2].reg_diff_source, p[2].reg_diff_technology,
                IF IsNull(p[1].base_year_reference_region_cost)
                THEN p[2].base_year_reference_region_cost
                ELSE p[1].base_year_reference_region_cost, NaN) :
            p \in {q \in rows \X raw_map_energy :
                     q[1].reg_diff_technology = q[2].message_technology}}
        \cup
        {MapRow(m.message_technology, NullStr, NullStr,
                m.base_year_reference_region_cost, NaN) :
            m \in {x \in rows :
                     \A e \in raw_map_energy : e.message_technology # x.reg_diff_technology}}

\* materials_map_intratec: the Intratec rows with a base cost, mapped to "all"
MaterialsMapIntratec(sub_map_materials) ==
    {[m EXCEPT !.reg_diff_technology = "all"] :
        m \in {x \in sub_map_materials :
                 /\ x.reg_diff_source = "intratec"
                 /\ ~IsNull(x.base_year_reference_region_cost)}}

\* materials_map_noregdiff: the rows without source that have a base cost
MaterialsMapNoregdiff(sub_map_materials) ==
    {m \in sub_map_materials : /\ m.reg_diff_source = NullStr
                               /\ ~IsNull(m.base_year_reference_region_cost)}

\* materials_all: the four tables together, identical rows dropped
MaterialsAll(sub_map_materials, raw_map_energy) ==
    MaterialsReplace(sub_map_materials, raw_map_energy)
    \cup MaterialsMapEnergy(sub_map_materials, raw_map_energy)
    \cup MaterialsMapIntratec(sub_map_materials)
    \cup MaterialsMapNoregdiff(sub_map_materials)

\* technologies looked up in the subset of the materials mapping
MissingTechOfSubset(raw_map_materials, materials_all) ==
    {m.message_technology : m \in raw_map_materials}
        \ {x.message_technology : x \in subset_materials_map(raw_map_materials)}

\* missing_tech: the technologies of the raw materials mapping not in materials_all
MissingTech(raw_map_materials, materials_all) ==
    {m.message_technology : m \in raw_map_materials}
        \ {x.message_technology : x \in materials_all}

\* adjust_technology_mapping(module), reading the two mapping files
adjust_technology_mapping(module, raw_map_energy, raw_map_materials) ==
    IF module = "energy" THEN raw_map_energy
    ELSE MaterialsAll(subset_materials_map(raw_map_materials), raw_map_energy)

\* the tables put together once both sources have been read
ApplyTables(df_map, df_weo, df_intratec) ==
    AllTech(FiltWeo(df_map, df_weo), FiltIntratec(df_map, df_intratec),
            FiltNone(df_map, UnReg(FiltIntratec(df_map, df_intratec))))

\* apply_regional_differentiation(config), reading the mapping, workbook and indices
apply_regional_differentiation(raw_map, node, ref_region, sheet, intratec) ==
    LET df_map == adjust_technology_mapping("energy", raw_map, {})
        weo == get_weo_regional_differentiation(node, ref_region, sheet)
        intr == get_intratec_regional_differentiation(node, ref_region, intratec)
    IN  IF ref_region = RefNone THEN Raised("AssertionError")
        ELSE IF weo.err # "none" THEN Raised(weo.err)
        ELSE IF intr.err # "none" THEN Raised(intr.err)
        ELSE Returned(ApplyTables(df_map, weo.table, intr.table))

(***************************************************************************)
(* One run of apply_regional_differentiation on one technology mapping     *)
(***************************************************************************)
ApplyNodes == {"R11", "R12", "R20"}
ApplyRefRegions == {"R12_NAM", "r12_nam", "R12_CHN", "R11_NAM", "R11_WEU"}

\* the values a mapping file gives explicitly
ExplicitBaseCost == Num(5)
ExplicitFixRatio == Rat(1, 10)

\* the rows a mapping may hold for technology t
MapRows(t) ==
    {MapRow(t, s, d, b, f) : s \in {"energy", "weo"}, d \in {"ccgt", "nuclear", "marine"},
                             b \in {NaN, ExplicitBaseCost}, f \in {NaN, ExplicitFixRatio}}
    \cup
    {MapRow(t, "intratec", "all", b, f) :
        b \in {NaN, ExplicitBaseCost}, f \in {NaN, ExplicitFixRatio}}
    \cup
    {MapRow(t, NullStr, NullStr, b, f) :
        b \in {NaN, ExplicitBaseCost}, f \in {NaN, ExplicitFixRatio}}

\* mappings of one or two technologies, one row per technology
Mappings ==
    {{r} : r \in MapRows("gas_cc")}
    \cup
    {{r, MapRow("solar_th", s, IF s = "intratec" THEN "all" ELSE NullStr, b, NaN)} :
        r \in MapRows("gas_cc"), s \in {"intratec", NullStr}, b \in {NaN, ExplicitBaseCost}}

InitApply ==
    /\ CliIdle
    /\ err = "none"
    /\ stage = {}
    /\ inp \in {[map |-> m, node |-> n, ref_region |-> r, weo_inv |-> FixedWeoInv,
                 intratec |-> FixedIntratec] :
                    m \in Mappings, n \in ApplyNodes, r \in ApplyRefRegions}
    /\ out = Returned({})

ApplyRegionalDifferentiation ==
    /\ err = "none" /\ stage = {}
    /\ out' = apply_regional_differentiation(inp.map, inp.node, inp.ref_region,
                                             WeoSheet(inp.weo_inv), inp.intratec)
    /\ err' = out'.err
    /\ stage' = {"apply_regional_differentiation"}
    /\ UNCHANGED <<inp, ctx, ret, call, ncalls, file, lastStore>>

NextApply == ApplyRegionalDifferentiation

SpecApply == InitApply /\ [][NextApply]_vars


(***************************************************************************)
(* Properties of apply_regional_differentiation                            *)
(***************************************************************************)
ApplyMade == stage = {"apply_regional_differentiation"} /\ out.err = "none"

TechRows(m) == {x \in out.table : x.message_technology = m.message_technology}

ApplyRegions == NodeRegions[Upper(inp.node)]

\* C15: every technology of the mapping without reg_diff_source has exactly one
\* row per region of the configured node set and no other row, each with
\* reg_cost_ratio = 1, whatever other technologies the mapping holds
C15_NoSourceFlat ==
    ApplyMade =>
        \A m \in inp.map :
            m.reg_diff_source = NullStr =>
                /\ \A r \in ApplyRegions :
                     Cardinality({x \in TechRows(m) : x.region = r}) = 1
                /\ \A x \in TechRows(m) :
                     x.region \in ApplyRegions /\ x.reg_cost_ratio = One

\* the 2021 fixed O&M cost of technology t in the WEO region of node r
WeoFixCost(t, r) ==
    LET rows == {x \in get_weo_data(WeoSheet(inp.weo_inv)) :
                    /\ x.weo_technology = t /\ x.cost_type = "fix_cost"
                    /\ x.weo_region = WeoRegionOf[r] /\ x.year = "2021"}
    IN  (CHOOSE x \in rows : TRUE).value

\* the technologies of the WEO workbook
InWeo(m) == m.reg_diff_source \in {"energy", "weo"} /\ m.reg_diff_technology \in WeoTechs

\* C18: in the table of apply_regional_differentiation fix_ratio is never null: an
\* explicit fix_ratio of the mapping is kept, otherwise it is the WEO fixed O&M cost
\* over the WEO investment cost of 2021 for the technology and region, and 0 for
\* an Intratec technology, a technology without source and a WEO technology that
\* has no row in the source
C18_FixRatioNeverNull ==
    ApplyMade =>
        \A m \in inp.map : \A x \in TechRows(m) :
            /\ ~IsNull(x.fix_ratio)
            /\ x.fix_ratio =
                 IF ~IsNull(m.fix_ratio) THEN m.fix_ratio
                 ELSE IF InWeo(m) /\ x.region \in ApplyRegions
                 THEN RDiv(WeoFixCost(m.reg_diff_technology, x.region),
                           WeoCost(m.reg_diff_technology, x.region))
                 ELSE Zero

\* the cost of the reference region in the source of mapping row m
SourceRefCost(m) ==
    IF m.reg_diff_source = "intratec" THEN IntratecCost(Upper(inp.ref_region))
    ELSE WeoCost(m.reg_diff_technology, Upper(inp.ref_region))

\* the mapping rows with an external source that holds the technology
HasSource(m) == InWeo(m) \/ (m.reg_diff_source = "intratec" /\ m.reg_diff_technology = "all")

\* C19: a technology with an external source (WEO or Intratec) has a row for every
\* region, and in each of them base_year_reference_region_cost is the explicit
\* value of the mapping when there is one, unchanged, and otherwise the cost of the
\* reference region in the source
C19_BaseCostFromSource ==
    ApplyMade =>
        \A m \in inp.map :
            HasSource(m) =>
                /\ {x.region : x \in TechRows(m)} = ApplyRegions
                /\ \A x \in TechRows(m) :
                     x.base_year_reference_region_cost =
                        IF IsNull(m.base_year_reference_region_cost)
                        THEN SourceRefCost(m)
                        ELSE m.base_year_reference_region_cost

\* a WEO technology and an Intratec technology without explicit cost that got the
\* reference region's cost of their source, different from the explicit value a
\* mapping gives, in a region other than the reference region
C19_Witness ==
    /\ ApplyMade
    /\ \E m \in inp.map : \E x \in TechRows(m) :
         /\ InWeo(m) /\ IsNull(m.base_year_reference_region_cost)
         /\ x.region # Upper(inp.ref_region)
         /\ x.base_year_reference_region_cost = SourceRefCost(m)
         /\ ~IsNull(x.base_year_reference_region_cost)
         /\ x.base_year_reference_region_cost # ExplicitBaseCost
    /\ \E m \in inp.map : \E x \in TechRows(m) :
         /\ m.reg_diff_source = "intratec"
         /\ IsNull(m.base_year_reference_region_cost)
         /\ x.base_year_reference_region_cost = SourceRefCost(m)
         /\ x.base_year_reference_region_cost # ExplicitBaseCost


(***************************************************************************)
(* splines.py: project_final_inv_and_fom_costs                             *)
(***************************************************************************)
\* an investment cost that follows converge_costs_flag only
InvCostNoGdp(x, use_gdp_flag, converge_costs_flag) ==
    IF converge_costs_flag = TRUE THEN x.inv_cost_splines ELSE x.inv_cost_learning_only

\* inv_cost: np.where(converge_costs_flag is True, inv_cost_splines,
\*                    np.where(use_gdp_flag is True, inv_cost_gdp_adj, ...))
InvCost(x, use_gdp_flag, converge_costs_flag) ==
    IF converge_costs_flag = TRUE THEN x.inv_cost_splines
    ELSE IF use_gdp_flag = TRUE THEN x.inv_cost_gdp_adj
    ELSE x.inv_cost_learning_only

\* a fixed cost that is the ratio alone
FixCostRatioOnly(inv_cost, fom_to_inv_cost_ratio) == fom_to_inv_cost_ratio

\* fix_cost = inv_cost * fom_to_inv_cost_ratio
FixCost(inv_cost, fom_to_inv_cost_ratio) == RMul(inv_cost, fom_to_inv_cost_ratio)

\* project_final_inv_and_fom_costs(splines_projection_df, fom_inv_ratios_df, ...)
project_final_inv_and_fom_costs(splines_projection_df, fom_inv_ratios_df, use_gdp_flag, converge_costs_flag) ==
    {[scenario |-> p[1].scenario,
      message_technology |-> p[1].message_technology,
      r11_region |-> p[1].r11_region,
      year |-> p[1].year,
      inv_cost |-> InvCost(p[1], use_gdp_flag, converge_costs_flag),
      fix_cost |-> FixCost(InvCost(p[1], use_gdp_flag, converge_costs_flag),
                           p[2].fom_to_inv_cost_ratio)] :
        p \in {q \in splines_projection_df \X fom_inv_ratios_df :
                 /\ q[1].message_technology = q[2].message_technology
                 /\ q[1].r11_region = q[2].r11_region}}

(***************************************************************************)
(* One call of project_final_inv_and_fom_costs                             *)
(***************************************************************************)
FinalRegions == {"R11_NAM", "R11_WEU"}
FinalCosts == {Num(1), Num(2)}
FomRatios == {Zero, Rat(1, 2)}

SplinesRow(r, y, learning, gdp, converge, splines) ==
    [scenario |-> "SSP2", message_technology |-> "gas_cc", r11_region |-> r, year |-> y,
     inv_cost_learning_only |-> learning, inv_cost_gdp_adj |-> gdp,
     inv_cost_converge |-> converge, inv_cost_splines |-> splines]

\* the tables apply_splines_projection may return: one row per region
SplinesProjections ==
    {{SplinesRow("R11_NAM", 2020, a, b, c, d),
      SplinesRow("R11_WEU", 2030, Num(3), Num(4), Num(5), Num(6))} :
        a \in FinalCosts, b \in FinalCosts, c \in FinalCosts, d \in FinalCosts}

\* the ratio tables: a ratio for some of the regions
FomInvRatios ==
    {{[message_technology |-> "gas_cc", r11_region |-> r, fom_to_inv_cost_ratio |-> f[r]] :
        r \in DOMAIN f} : f \in UNION {[S -> FomRatios] : S \in SUBSET FinalRegions}}

InitFinal ==
    /\ CliIdle
    /\ err = "none"
    /\ stage = {}
    /\ inp \in {[splines |-> s, fom |-> f, use_gdp_flag |-> g, converge_costs_flag |-> c] :
                    s \in SplinesProjections, f \in FomInvRatios,
                    g \in BOOLEAN, c \in BOOLEAN}
    /\ out = {}

ProjectFinalInvAndFomCosts ==
    /\ stage = {}
    /\ out' = project_final_inv_and_fom_costs(inp.splines, inp.fom, inp.use_gdp_flag,
                                              inp.converge_costs_flag)
    /\ stage' = {"project_final_inv_and_fom_costs"}
    /\ UNCHANGED <<inp, err, ctx, ret, call, ncalls, file, lastStore>>

NextFinal == ProjectFinalInvAndFomCosts

SpecFinal == InitFinal /\ [][NextFinal]_vars

(***************************************************************************)
(* Properties of project_final_inv_and_fom_costs                           *)
(***************************************************************************)
FinalMade == stage = {"project_final_inv_and_fom_costs"}

\* the row of the spline projection a row of the result comes from
SplinesOf(x) ==
    CHOOSE s \in inp.splines :
        /\ s.scenario = x.scenario /\ s.message_technology = x.message_technology
        /\ s.r11_region = x.r11_region /\ s.year = x.year

\* the original statement of C16: with converge_costs_flag=True inv_cost is the
\* converging series inv_cost_converge; with converge_costs_flag=False it is
\* inv_cost_gdp_adj when use_gdp_flag is True and inv_cost_learning_only otherwise
C16_InvCostConverge ==
    FinalMade =>
        \A x \in out :
            x.inv_cost = IF inp.converge_costs_flag THEN SplinesOf(x).inv_cost_converge
                         ELSE IF inp.use_gdp_flag THEN SplinesOf(x).inv_cost_gdp_adj
                         ELSE SplinesOf(x).inv_cost_learning_only

\* C16 (amended): project_final_inv_and_fom_costs selects inv_cost by its flags:
\* with converge_costs_flag=True (the default) inv_cost is inv_cost_splines, the
\* spline projection fitted to the converging series, whatever use_gdp_flag is;
\* with converge_costs_flag=False it is inv_cost_gdp_adj when use_gdp_flag is True
\* and inv_cost_learning_only otherwise
C16_InvCostSplines ==
    FinalMade =>
        \A x \in out :
            x.inv_cost = IF inp.converge_costs_flag THEN SplinesOf(x).inv_cost_splines
                         ELSE IF inp.use_gdp_flag THEN SplinesOf(x).inv_cost_gdp_adj
                         ELSE SplinesOf(x).inv_cost_learning_only

\* the default flags on a row whose spline value differs from its converging and
\* learning-only values
C16_Witness ==
    /\ FinalMade
    /\ inp.converge_costs_flag /\ ~inp.use_gdp_flag
    /\ \E x \in out : /\ x.inv_cost = SplinesOf(x).inv_cost_splines
                      /\ x.inv_cost # SplinesOf(x).inv_cost_converge
                      /\ x.inv_cost # SplinesOf(x).inv_cost_learning_only
                      /\ x.r11_region = "R11_NAM"

\* the ratios the table holds for a technology and a region
RatiosOf(t, r) ==
    {f.fom_to_inv_cost_ratio : f \in {g \in inp.fom : g.message_technology = t
                                                     /\ g.r11_region = r}}

\* C17: for every combination of the two flags, every row of the result has
\* fix_cost = inv_cost times the fixed-to-investment ratio of the row's technology
\* and region, and every row of the spline projection whose technology and region
\* have a ratio is in the result
C17_FixCost ==
    FinalMade =>
        /\ \A x \in out :
             \E f \in RatiosOf(x.message_technology, x.r11_region) :
                x.fix_cost = RMul(x.inv_cost, f)
        /\ \A s \in inp.splines :
             RatiosOf(s.message_technology, s.r11_region) # {} =>
                \E x \in out : SplinesOf(x) = s

\* a row with a fixed cost that is neither the investment cost nor the ratio
C17_Witness ==
    /\ FinalMade
    /\ \E x \in out :
         /\ RatiosOf(x.message_technology, x.r11_region) = {Rat(1, 2)}
         /\ x.inv_cost = Num(2)
         /\ x.fix_cost = One


(***************************************************************************)
(* Region-set identifiers outside R11, R12, R20                            *)
(***************************************************************************)
\* the exceptions that report a wrong configuration value
ConfigurationErrors == {"ConfigurationError", "ValueError"}

\* C20: process_raw_ssp_data called with a region-set identifier that is not R11,
\* R12 or R20 in any letter case fails with a configuration error and does not go
\* on to read the node file or the SSP data
C20_InvalidNodeRejected ==
    (Ran("process_raw_ssp_data") /\ Upper(inp.node) \notin {"R11", "R12", "R20"}) =>
        out.raised["process_raw_ssp_data"] \in ConfigurationErrors


(***************************************************************************)
(* A reference region that the aggregated GDP data do not hold             *)
(***************************************************************************)
\* the node set is known and the reference region is not a region of the table
\* aggregated from the SSP file
RefMissing ==
    /\ Upper(inp.node) \in {"R11", "R12", "R20"}
    /\ GdpRef \notin {x.region : x \in GdpPerCapita(Upper(inp.node),
                                                     SspFile(inp.gdp, inp.covered))}

\* C21: when the reference region is not among the regions of the aggregated GDP
\* data, process_raw_ssp_data raises an error instead of returning without a table,
\* and calculate_indiv_adjusted_region_cost_ratios ends with that validation error
C21_MissingRefSurfaced ==
    RefMissing =>
        /\ Ran("process_raw_ssp_data") =>
              /\ out.raised["process_raw_ssp_data"] \in ConfigurationErrors
              /\ ~out.gdp.none
        /\ Ran("calculate_indiv_adjusted_region_cost_ratios") =>
              out.raised["calculate_indiv_adjusted_region_cost_ratios"]
                 \in ConfigurationErrors


(***************************************************************************)
(* The reference region in lower case                                      *)
(***************************************************************************)
\* the reference region as given, in upper case
RefRegionUpper == IF inp.ref_region = RefNone THEN RefNone ELSE Upper(inp.ref_region)

\* C29: every stage matches the reference region case-insensitively: what
\* process_raw_ssp_data and calculate_indiv_adjusted_region_cost_ratios return for a
\* reference region is what they return for the same reference region in upper case
\* (under some behaviour of linregress on a degenerate fit)
C29_CaseInsensitive ==
    /\ Ran("process_raw_ssp_data") =>
          out.gdp = process_raw_ssp_data(inp.node, RefRegionUpper,
                                         SspFile(inp.gdp, inp.covered))
    /\ Ran("calculate_indiv_adjusted_region_cost_ratios") =>
          \E raises \in BOOLEAN :
              out.adj = calculate_indiv_adjusted_region_cost_ratios(
                            RegionDiffDf(inp.node, RefRegionUpper), inp.node,
                            RefRegionUpper, inp.base_year,
                            SspFile(inp.gdp, inp.covered), raises)

(***************************************************************************)
(* One call of adjust_technology_mapping on one pair of mapping files      *)
(***************************************************************************)
Modules == {"energy", "materials"}

\* the energy mapping: gas_cc always, coal_ppl in some files
EnergyMaps ==
    {{MapRow("gas_cc", "weo", "ccgt", b, f)} \cup c :
        b \in {NaN, ExplicitBaseCost}, f \in {NaN, ExplicitFixRatio},
        c \in {{}} \cup {{MapRow("coal_ppl", "weo", "nuclear", k, NaN)} :
                           k \in {NaN, Num(7)}}}

\* the base costs a materials mapping may give
MaterialsBaseCosts == {NaN, Rat(7, 2), Num(3)}

\* the rows a materials mapping may hold for technology t
MaterialsRows(t) ==
    {MapRow(t, "energy", d, b, NaN) : d \in {"gas_cc", "coal_ppl"}, b \in MaterialsBaseCosts}
    \cup {MapRow(t, "intratec", NullStr, b, NaN) : b \in MaterialsBaseCosts}
    \cup {MapRow(t, "weo", "ccgt", b, NaN) : b \in MaterialsBaseCosts}
    \cup {MapRow(t, NullStr, NullStr, b, NaN) : b \in MaterialsBaseCosts}

\* the materials mapping: at most one row for each of a technology of its own
\* and a technology the energy mapping holds too
MaterialsMaps ==
    {a \cup b : a \in {{}} \cup {{r} : r \in MaterialsRows("steel")},
                b \in {{}} \cup {{r} : r \in MaterialsRows("gas_cc")}}

InitMap ==
    /\ CliIdle
    /\ err = "none"
    /\ stage = {}
    /\ inp \in [module : Modules, energy : EnergyMaps, materials : MaterialsMaps]
    /\ out = [table |-> {}, logged |-> {}]

AdjustTechnologyMapping ==
    /\ stage = {}
    /\ out' = [table |-> adjust_technology_mapping(inp.module, inp.energy, inp.materials),
               logged |-> IF inp.module = "materials"
                          THEN MissingTech(inp.materials,
                                           adjust_technology_mapping(inp.module, inp.energy,
                                                                     inp.materials))
                          ELSE {}]
    /\ stage' = {"adjust_technology_mapping"}
    /\ UNCHANGED <<inp, err, ctx, ret, call, ncalls, file, lastStore>>

NextMap == AdjustTechnologyMapping

SpecMap == InitMap /\ [][NextMap]_vars

(***************************************************************************)
(* Properties of adjust_technology_mapping                                 *)
(***************************************************************************)
MapMade(module) == stage = {"adjust_technology_mapping"} /\ inp.module = module

MapTechs(table) == {x.message_technology : x \in table}

RowsOfTech(t) == {x \in out.table : x.message_technology = t}

\* C22: for both modules the mapping adjust_technology_mapping returns has one row
\* per message_technology: no technology occurs in more than one row
C22_OneRowPerTechnology ==
    stage = {"adjust_technology_mapping"} =>
        \A t \in MapTechs(out.table) : Cardinality(RowsOfTech(t)) = 1

\* C23: for the materials module every technology of the raw materials mapping is
\* in the returned mapping or in the logged list of technologies not projected,
\* never in both and never in neither, and the call raises nothing
C23_PresentOrLogged ==
    MapMade("materials") =>
        /\ err = "none"
        /\ \A t \in MapTechs(inp.materials) :
             (t \in MapTechs(out.table)) <=> (t \notin out.logged)
        /\ out.logged \subseteq MapTechs(inp.materials)

\* a technology logged although the subset keeps it, and another one returned
C23_Witness ==
    /\ MapMade("materials")
    /\ \E t \in out.logged : t \in MapTechs(subset_materials_map(inp.materials))
    /\ \E t \in MapTechs(inp.materials) : t \in MapTechs(out.table) /\ t \notin out.logged


\* the returned mapping holds a row with these four documented columns
Returns(t, source, technology, base) ==
    \E x \in out.table : /\ x.message_technology = t
                         /\ x.reg_diff_source = source
                         /\ x.reg_diff_technology = technology
                         /\ x.base_year_reference_region_cost = base

\* the materials rows with a base cost for the technology of energy row e
MaterialsWithCost(e) ==
    {m \in inp.materials : /\ m.message_technology = e.message_technology
                           /\ ~IsNull(m.base_year_reference_region_cost)}

\* the original statement of C30: the base cost taken from the materials mapping
\* is the value of the mapping file
C30_MaterialsValue ==
    MapMade("materials") =>
        /\ \A m \in inp.materials : \A e \in inp.energy :
             (m.reg_diff_source = "energy" /\ m.reg_diff_technology = e.message_technology)
                => Returns(m.message_technology, e.reg_diff_source, e.reg_diff_technology,
                           IF ~IsNull(m.base_year_reference_region_cost)
                           THEN m.base_year_reference_region_cost
                           ELSE e.base_year_reference_region_cost)
        /\ \A e \in inp.energy :
             IF MaterialsWithCost(e) = {}
             THEN Returns(e.message_technology, e.reg_diff_source, e.reg_diff_technology,
                          e.base_year_reference_region_cost)
             ELSE \A m \in MaterialsWithCost(e) :
                    Returns(e.message_technology, e.reg_diff_source, e.reg_diff_technology,
                            m.base_year_reference_region_cost)

\* C30 (amended): for the materials module, a materials technology whose
\* reg_diff_source is "energy" yields a row that keeps its own message_technology,
\* takes reg_diff_source and reg_diff_technology from the energy technology it is
\* mapped to, and takes as base cost the materials value rounded to the nearest
\* integer when that is non-null and the mapped energy technology's otherwise; an
\* energy technology that is in the materials mapping with a non-null base cost has
\* its base cost replaced by the rounded materials value, and every other energy
\* technology is returned with its source, source technology and base cost unchanged
C30_MaterialsRounded ==
    MapMade("materials") =>
        /\ \A m \in inp.materials : \A e \in inp.energy :
             (m.reg_diff_source = "energy" /\ m.reg_diff_technology = e.message_technology)
                => Returns(m.message_technology, e.reg_diff_source, e.reg_diff_technology,
                           IF ~IsNull(m.base_year_reference_region_cost)
                           THEN Round(m.base_year_reference_region_cost)
                           ELSE e.base_year_reference_region_cost)
        /\ \A e \in inp.energy :
             IF MaterialsWithCost(e) = {}
             THEN Returns(e.message_technology, e.reg_diff_source, e.reg_diff_technology,
                          e.base_year_reference_region_cost)
             ELSE \A m \in MaterialsWithCost(e) :
                    Returns(e.message_technology, e.reg_diff_source, e.reg_diff_technology,
                            Round(m.base_year_reference_region_cost))

\* steel mapped to an energy technology with a base cost of 3.5, returned with 4;
\* gas_cc with an energy base cost replaced by the materials one; coal_ppl unchanged
C30_Witness ==
    /\ MapMade("materials")
    /\ \E m \in inp.materials :
         /\ m.message_technology = "steel" /\ m.reg_diff_source = "energy"
         /\ m.reg_diff_technology = "coal_ppl"
         /\ m.base_year_reference_region_cost = Rat(7, 2)
    /\ Returns("steel", "weo", "nuclear", Num(4))
    /\ \E e \in inp.energy :
         /\ e.message_technology = "gas_cc"
         /\ e.base_year_reference_region_cost = ExplicitBaseCost
         /\ MaterialsWithCost(e) # {}
         /\ ~Returns("gas_cc", "weo", "ccgt", ExplicitBaseCost)
    /\ Returns("coal_ppl", "weo", "nuclear", Num(7))


(***************************************************************************)
(* splines.py: apply_polynominal_regression                                *)
(* The fitted coefficients are a function of the points handed to          *)
(* LinearRegression().fit; a coefficient row carries those points.         *)
(***************************************************************************)
\* the rows of one scenario, technology and region, of whatever year
AllYearRows(df, i, j, k, convergence_year_flag) ==
    {x \in df : x.scenario = i /\ x.message_technology = j /\ x.r11_region = k}

\* tech: the rows of one scenario, technology and region whose year is the first
\* model year or not before the convergence year
AnchorRows(df, i, j, k, convergence_year_flag) ==
    {x \in df : /\ x.scenario = i /\ x.message_technology = j /\ x.r11_region = k
                /\ (x.year = FIRST_MODEL_YEAR \/ x.year >= convergence_year_flag)}

\* poly_reg_model.fit(poly_features, y) on x = tech.year, y = tech.inv_cost_converge
PolyFit(tech) == {<<x.year, x.inv_cost_converge>> : x \in tech}

\* data_reg: one frame of coefficients per combination that has rows
DataReg(df, convergence_year_flag) ==
    {[scenario |-> c[1], message_technology |-> c[2], r11_region |-> c[3],
      fit |-> PolyFit(AnchorRows(df, c[1], c[2], c[3], convergence_year_flag))] :
        c \in {d \in {x.scenario : x \in df} \X {x.message_technology : x \in df}
                       \X {x.r11_region : x \in df} :
                 AnchorRows(df, d[1], d[2], d[3], convergence_year_flag) # {}}}

\* apply_polynominal_regression(proj_costs_adj_df, convergence_year_flag);
\* pd.concat raises ValueError when there is no frame to concatenate
apply_polynominal_regression(proj_costs_adj_df, convergence_year_flag) ==
    IF DataReg(proj_costs_adj_df, convergence_year_flag) = {} THEN Raised("ValueError")
    ELSE Returned(DataReg(proj_costs_adj_df, convergence_year_flag))

(***************************************************************************)
(* One call of apply_polynominal_regression                                *)
(***************************************************************************)
PolyScenarios == {"SSP1", "SSP2"}
PolyRegions == {"R11_NAM", "R11_WEU"}

\* the cost of the converging series, by region and year
ConvergeCost(r, y) == Num((y - 2010) \div 10 + (IF r = "R11_NAM" THEN 0 ELSE 1))

ProjRow(i, k, y, c) ==
    [scenario |-> i, message_technology |-> "gas_cc", r11_region |-> k, year |-> y,
     inv_cost_converge |-> c]

\* the tables of projected costs: SSP2 with any of its rows, SSP1 with its NAM rows
\* or without rows
ProjCostsAdj ==
    {{ProjRow("SSP2", q[1], q[2], ConvergeCost(q[1], q[2])) : q \in S} \cup T :
        S \in SUBSET (PolyRegions \X SplineYears),
        T \in {{}, {ProjRow("SSP1", "R11_NAM", y, Num(1)) : y \in SplineYears}}}

InitPoly ==
    /\ CliIdle
    /\ err = "none"
    /\ stage = {}
    /\ inp \in [df : ProjCostsAdj, convergence_year_flag : ConvergenceYears]
    /\ out = Returned({})

ApplyPolynominalRegression ==
    /\ stage = {}
    /\ out' = apply_polynominal_regression(inp.df, inp.convergence_year_flag)
    /\ err' = out'.err
    /\ stage' = {"apply_polynominal_regression"}
    /\ UNCHANGED <<inp, ctx, ret, call, ncalls, file, lastStore>>

NextPoly == ApplyPolynominalRegression

SpecPoly == InitPoly /\ [][NextPoly]_vars

(***************************************************************************)
(* Properties of apply_polynominal_regression                              *)
(***************************************************************************)
PolyRan == stage = {"apply_polynominal_regression"}

\* the points of the converging series of (i, k) at the first model year or from
\* the convergence year on
AnchorPoints(i, k) ==
    {<<x.year, x.inv_cost_converge>> :
        x \in {z \in inp.df : /\ z.scenario = i /\ z.r11_region = k
                              /\ z.year \in {2020} \cup {y \in SplineYears :
                                                  y >= inp.convergence_year_flag}}}

CoefRows(i, k) == {x \in out.table : x.scenario = i /\ x.r11_region = k}

\* C24: apply_polynominal_regression returns, for each scenario, technology and
\* region, exactly one coefficient row when the converging series has a row at the
\* first model year (2020) or at or after the convergence year, fitted on exactly
\* those rows, and no row otherwise; when no combination at all has such a row no
\* row is produced either (the call ends with ValueError)
C24_AnchorFit ==
    PolyRan =>
        /\ \A i \in PolyScenarios, k \in PolyRegions :
             IF AnchorPoints(i, k) = {}
             THEN CoefRows(i, k) = {}
             ELSE /\ Cardinality(CoefRows(i, k)) = 1
                  /\ \A x \in CoefRows(i, k) : x.fit = AnchorPoints(i, k)
        /\ out.err = IF \A i \in PolyScenarios, k \in PolyRegions : AnchorPoints(i, k) = {}
                     THEN "ValueError" ELSE "none"

\* a region fitted on the first of its three rows, next to a region that has a row
\* but none to fit
C24_Witness ==
    /\ PolyRan /\ out.err = "none"
    /\ inp.convergence_year_flag = 2050
    /\ \E x \in inp.df : x.scenario = "SSP2" /\ x.r11_region = "R11_WEU" /\ x.year = 2030
    /\ \A x \in inp.df : x.scenario = "SSP2" /\ x.r11_region = "R11_WEU" => x.year # 2020
    /\ CoefRows("SSP2", "R11_WEU") = {}
    /\ \E x \in CoefRows("SSP2", "R11_NAM") : Cardinality(x.fit) = 1
    /\ Cardinality({x \in inp.df : x.scenario = "SSP2" /\ x.r11_region = "R11_NAM"}) = 3


(***************************************************************************)
(* splines.py: apply_splines_projection                                    *)
(***************************************************************************)
LAST_MODEL_YEAR == 2100

\* seq_years: range(FIRST_MODEL_YEAR, LAST_MODEL_YEAR + 10, 10)
seq_years ==
    {y \in FIRST_MODEL_YEAR..(LAST_MODEL_YEAR + 9) : (y - FIRST_MODEL_YEAR) % 10 = 0}

\* beta_1*y + beta_2*y**2 + beta_3*y**3 + intercept, the powers of y taken by
\* repeated multiplication
Polynomial(x, y) ==
    RAdd(RAdd(RAdd(RMul(x.beta_1, Num(y)),
                   RMul(RMul(x.beta_2, Num(y)), Num(y))),
              RMul(RMul(RMul(x.beta_3, Num(y)), Num(y)), Num(y))),
         x.intercept)

\* the reference-year cost kept only before the first technology year
YcurBefore(x, y) ==
    IF y < x.first_technology_year THEN x.cost_region_2021 ELSE Polynomial(x, y)

\* ycur: np.where(y <= x.first_technology_year, x.cost_region_2021, polynomial)
Ycur(x, y) ==
    IF y <= x.first_technology_year THEN x.cost_region_2021 ELSE Polynomial(x, y)

\* df: the investment-cost rows of region_diff_df, right-merged with the first
\* technology years and merged with the coefficients
SplinesDf(region_diff_df, first_year_df, poly_reg_df) ==
    {[scenario |-> p[3].scenario, message_technology |-> p[1].message_technology,
      r11_region |-> p[1].r11_region, cost_region_2021 |-> p[1].cost_region_2021,
      first_technology_year |-> p[2].first_technology_year,
      beta_1 |-> p[3].beta_1, beta_2 |-> p[3].beta_2, beta_3 |-> p[3].beta_3,
      intercept |-> p[3].intercept] :
        p \in {q \in region_diff_df \X first_year_df \X poly_reg_df :
                 /\ q[1].cost_type = "inv_cost"
                 /\ q[1].message_technology = q[2].message_technology
                 /\ q[1].message_technology = q[3].message_technology
                 /\ q[1].r11_region = q[3].r11_region}}

\* apply_splines_projection(...): df_long, the spline cost of every year of
\* seq_years merged with the learning projections of the same year
apply_splines_projection(region_diff_df, first_year_df, poly_reg_df, learning_projections_df) ==
    {[scenario |-> p[1].scenario, message_technology |-> p[1].message_technology,
      r11_region |-> p[1].r11_region, year |-> p[2],
      inv_cost_learning_only |-> p[3].inv_cost_learning_only,
      inv_cost_gdp_adj |-> p[3].inv_cost_gdp_adj,
      inv_cost_converge |-> p[3].inv_cost_converge,
      inv_cost_splines |-> Ycur(p[1], p[2])] :
        p \in {q \in SplinesDf(region_diff_df, first_year_df, poly_reg_df) \X seq_years
                       \X learning_projections_df :
                 /\ q[3].scenario = q[1].scenario
                 /\ q[3].message_technology = q[1].message_technology
                 /\ q[3].r11_region = q[1].r11_region
                 /\ q[3].year = q[2]}}

(***************************************************************************)
(* One call of apply_splines_projection                                    *)
(***************************************************************************)
FirstTechnologyYears == {2010, 2020, 2030, 2100}

\* region_diff_df: investment and fixed costs of the reference year, by region
RegionDiffCosts ==
    {[cost_type |-> c, message_technology |-> "gas_cc", r11_region |-> r,
      cost_region_2021 |-> Num((IF r = "R11_NAM" THEN 3 ELSE 4)
                               + (IF c = "inv_cost" THEN 0 ELSE 10))] :
        c \in CostTypes, r \in FinalRegions}

CoefRow(r, b1, b2, b3, b0) ==
    [scenario |-> "SSP2", message_technology |-> "gas_cc", r11_region |-> r,
     beta_1 |-> b1, beta_2 |-> b2, beta_3 |-> b3, intercept |-> b0]

\* poly_reg_df: coefficients for R11_NAM, and for R11_WEU in some tables
PolyRegDfs ==
    {{CoefRow("R11_NAM", b1, b2, b3, b0)} \cup w :
        b1 \in {Zero, One}, b2 \in {Zero, Rat(1, 100)}, b3 \in {Zero, Rat(1, 1000000)},
        b0 \in {Zero, Num(-5)},
        w \in {{}, {CoefRow("R11_WEU", Zero, Zero, Zero, Num(2))}}}

\* the years of the learning projections: the model years by 10, by 5, or up to 2050
LearningYearSets ==
    {seq_years, seq_years \cup {2025, 2035}, {y \in seq_years : y <= 2050} \cup {2015}}

LearningProjections(years) ==
    {SplinesRow(r, y, Num(1), Num(2), Num(3), NaN) : r \in FinalRegions, y \in years}

InitProjection ==
    /\ CliIdle
    /\ err = "none"
    /\ stage = {}
    /\ inp \in [first_technology_year : FirstTechnologyYears, poly_reg_df : PolyRegDfs,
                years : LearningYearSets]
    /\ out = {}

ApplySplinesProjection ==
    /\ stage = {}
    /\ out' = apply_splines_projection(
                  RegionDiffCosts,
                  {[message_technology |-> "gas_cc",
                    first_technology_year |-> inp.first_technology_year]},
                  inp.poly_reg_df,
                  {[scenario |-> x.scenario, message_technology |-> x.message_technology,
                    r11_region |-> x.r11_region, year |-> x.year,
                    inv_cost_learning_only |-> x.inv_cost_learning_only,
                    inv_cost_gdp_adj |-> x.inv_cost_gdp_adj,
                    inv_cost_converge |-> x.inv_cost_converge] :
                       x \in LearningProjections(inp.years)})
    /\ stage' = {"apply_splines_projection"}
    /\ UNCHANGED <<inp, err, ctx, ret, call, ncalls, file, lastStore>>

NextProjection == ApplySplinesProjection

SpecProjection == InitProjection /\ [][NextProjection]_vars

(***************************************************************************)
(* Properties of apply_splines_projection                                  *)
(***************************************************************************)
ProjectionMade == stage = {"apply_splines_projection"}

\* the model years 2020, 2030, ..., 2100
Horizon == {2020 + 10 * n : n \in 0..8}

\* the value of the cubic with the coefficients of row c at year y
Cubic(c, y) ==
    RAdd(RAdd(RMul(c.beta_1, Num(y)), RMul(c.beta_2, Num(y * y))),
         RAdd(RMul(RMul(c.beta_3, Num(y * y)), Num(y)), c.intercept))

\* C25: apply_splines_projection gives the spline cost at the years 2020, 2030,
\* ..., 2100 and at no other year: for each region with coefficients and each such
\* year the learning projections hold there is one row, and its inv_cost_splines is
\* the region's cost_region_2021 when the year is not after the first technology
\* year and beta_1*y + beta_2*y^2 + beta_3*y^3 + intercept otherwise
C25_SplineCost ==
    ProjectionMade =>
        /\ \A x \in out : x.year \in Horizon
        /\ \A c \in inp.poly_reg_df : \A y \in Horizon \cap inp.years :
             LET rows == {x \in out : x.r11_region = c.r11_region /\ x.year = y}
             IN  /\ Cardinality(rows) = 1
                 /\ \A x \in rows :
                      x.inv_cost_splines =
                         IF y <= inp.first_technology_year
                         THEN Num(IF c.r11_region = "R11_NAM" THEN 3 ELSE 4)
                         ELSE Cubic(c, y)

\* a first technology year of 2030: the reference-year cost in 2030 itself, the
\* cubic with all its terms in 2040 and in 2100
C25_Witness ==
    /\ ProjectionMade
    /\ inp.first_technology_year = 2030
    /\ \E x \in out : /\ x.r11_region = "R11_NAM" /\ x.year = 2030
                      /\ x.inv_cost_splines = Num(3)
    /\ \E c \in inp.poly_reg_df :
         /\ c.r11_region = "R11_NAM"
         /\ c.beta_1 = One /\ c.beta_2 = Rat(1, 100) /\ c.beta_3 = Rat(1, 1000000)
         /\ \E x \in out : /\ x.r11_region = "R11_NAM" /\ x.year = 2100
                           /\ x.inv_cost_splines = RAdd(Num(2100 + 44100 + 9261), c.intercept)
         /\ \E x \in out : /\ x.r11_region = "R11_NAM" /\ x.year = 2040
                           /\ x.inv_cost_splines # Num(3)

====
